---- MODULE Spec2Model ----
(***************************************************************************)
(* A model of the section node core of sn_node:                            *)
(*   - the Reward Ledger (src/node/elder_duties/rewards/mod.rs), one       *)
(*     ledger under arbitrary reward duties (SpecLedger) and two sections  *)
(*     exchanging the relocation messages (SpecRelocation);                *)
(*   - the Chunk Storage Service (src/chunks/chunk_storage.rs), SpecChunks.*)
(* The farming system, the section funds dispatcher, the message wrapping  *)
(* and the chunk store are modules of the repository whose source is not   *)
(* at hand; they are modelled from the specification (sections 4.1, 4.4,   *)
(* 4.6) and marked so in the map of the model.                             *)
(***************************************************************************)
EXTENDS Integers, Sequences, FiniteSets, TLC

(***************************************************************************)
(* Bounds of the model.                                                    *)
(***************************************************************************)
\* largest work value a RewardCounter carried by an event holds
MaxWork == 1
\* largest reward (nanos) a RewardCounter carried by an event holds
MaxReward == 1
\* longest blob (bytes) a client or a holder sends
MaxBlobLen == 2
\* the bytes a node may use for chunks (the maximum of UsedSpace)
MaxCapacity == 4
\* the width in bits of the unsigned integers of the reward calculator (u64
\* in the source): token amounts range over 0 .. 2^TokenBits - 1
TokenBits == 4
\* the amounts given to the reward distribution range over
\* 0 .. 2^AmountBits - 1; its arithmetic is that of u64 whatever the amount
AmountBits == 8
\* the largest age of a node given to the reward distribution, besides the
\* two ages at which the weight 2^age reaches the width of u64
MaxAge == 7
\* the routing events the stream of a node delivers
MaxEvents == 2
\* the duties one routing event may give rise to, the first one included
MaxDuties == 4
\* the follow-up duties the handling of one duty may return
MaxFanout == 2
\* the messages of a replication that may be on the wire at once
MaxInFlight == 1
(***************************************************************************)
(* Identities. Names, account ids and message ids are opaque labels.       *)
(***************************************************************************)
Sections == {"S1", "S2"}
Names == {"n1", "n2"}
AccountIds == {"a1", "a2"}
MsgIds == {"m1", "m2"}

\* the section whose prefix holds a node name; any other name lives outside
SectionOf(n) == IF n = "n1" THEN "S1" ELSE IF n = "n2" THEN "S2" ELSE "outside"

VARIABLES
    rewards,     \* section -> its Rewards struct (node_accounts, farming)
    ev,          \* the duty or message handled by the last step
    out,         \* what the last step returned (Option<NodeOperation> / NodeDuty)
    network,     \* reward messages in flight between sections
    held_work,   \* account id -> work its section held when last claimed (-1: never)
    storage,     \* node -> its chunk store (the chunks on disk and the used space)
    node         \* the event loop of a node: its stream, context and duty lists

vars == <<rewards, ev, out, network, held_work, storage, node>>

(***************************************************************************)
(* HashMap / BTreeMap as a function on the set of keys present.            *)
(***************************************************************************)
EmptyMap == [k \in {} |-> 0]
MapInsert(m, k, v) == [x \in DOMAIN m \cup {k} |-> IF x = k THEN v ELSE m[x]]
MapRemove(m, k) == [x \in DOMAIN m \ {k} |-> m[x]]

(***************************************************************************)
(* RewardAccount, the stage of a node's account.                           *)
(***************************************************************************)
AwaitingStart == [stage |-> "AwaitingStart"]
Active(id) == [stage |-> "Active", id |-> id]
AwaitingMove(id) == [stage |-> "AwaitingMove", id |-> id]

\* the stage of a node's entry, "None" when the map has no entry
StageOf(accounts, n) == IF n \in DOMAIN accounts THEN accounts[n].stage ELSE "None"

(***************************************************************************)
(* RewardCounter and the counters given to ReceiveClaimedRewards.          *)
(***************************************************************************)
Counter(w, r) == [work |-> w, reward |-> r]
Counters == {Counter(w, r) : w \in 0..MaxWork, r \in 0..MaxReward}

\* payloads of the writes that accumulate reward (one payload of one byte)
DataSet == {<<0>>}

(***************************************************************************)
(* Farming System (D), modelled from section 4.4 of the specification.     *)
(* counters: account id -> RewardCounter; seen: hashes already rewarded.   *)
(***************************************************************************)
NewFarming == [counters |-> EmptyMap, seen |-> {}]

\* add_account(id, initial_work): creates an entry; fails if already present
farming_add_account(fm, id, work) ==
    IF id \in DOMAIN fm.counters
    THEN [ok |-> FALSE, farming |-> fm]
    ELSE [ok |-> TRUE,
          farming |-> [fm EXCEPT !.counters = MapInsert(@, id, Counter(work, 0))]]

\* reward(data_hash, num_bytes, factor): every account gains one unit of work
\* and an equal share of num_bytes * factor; a hash already seen is refused
farming_reward(fm, data_hash, num_bytes, factor) ==
    IF data_hash \in fm.seen \/ DOMAIN fm.counters = {}
    THEN [ok |-> FALSE, farming |-> fm]
    ELSE LET share == (num_bytes * factor) \div Cardinality(DOMAIN fm.counters)
         IN  [ok |-> TRUE,
              farming |-> [counters |-> [a \in DOMAIN fm.counters |->
                                Counter(fm.counters[a].work + 1,
                                        fm.counters[a].reward + share)],
                           seen |-> fm.seen \cup {data_hash}]]

\* claim(id): returns and removes the account's counter, or NoSuchAccount
farming_claim(fm, id) ==
    IF id \in DOMAIN fm.counters
    THEN [ok |-> TRUE, counter |-> fm.counters[id],
          farming |-> [fm EXCEPT !.counters = MapRemove(@, id)]]
    ELSE [ok |-> FALSE, counter |-> Counter(0, 0), farming |-> fm]

(***************************************************************************)
(* Duties returned by the ledger. NoDuty is Option::None.                  *)
(***************************************************************************)
NoDuty == [kind |-> "None"]

\* ElderMsgWrapping::send: the message wrapped as a duty to send
send(msg) == [kind |-> "Send", msg |-> msg]

\* ElderMsgWrapping::network_error: the error sent back to origin,
\* correlated to the message that caused it
network_error(error, account_id, msg_id, origin) ==
    [kind |-> "Send",
     msg |-> [type |-> "NetworkCmdError", error |-> error, account_id |-> account_id,
              correlation_id |-> msg_id, dst |-> origin]]

\* SectionFunds::initiate_reward_payout (section 4.6): a debit of amount to id
initiate_reward_payout(amount, id) ==
    [kind |-> "RewardPayout", amount |-> amount, to |-> id]

(***************************************************************************)
(* Rewards: the ledger of one section. Each method returns the ledger      *)
(* after the call and the Option<MessagingDuty> it returns.                *)
(***************************************************************************)
NewRewards == [node_accounts |-> EmptyMap, farming |-> NewFarming]

Ret(r, duty) == [rewards |-> r, duty |-> duty]

\* 0. A brand new node has joined our section.
add_account(r, id, node_id) ==
    Ret([r EXCEPT !.node_accounts = MapInsert(@, node_id, Active(id))], NoDuty)

\* a ledger that asks for the counter with the two names exchanged
add_relocated_account_exchanged(r, old_node_id, new_node_id, fresh) ==
    Ret([r EXCEPT !.node_accounts = MapInsert(@, new_node_id, AwaitingStart)],
        send([type |-> "ClaimRewardCounter", old_node_id |-> new_node_id,
              new_node_id |-> old_node_id, id |-> fresh]))

\* 1. A node is relocated to our section: add the account and ask the old
\* section for the counter. fresh is the value of MessageId::new().
add_relocated_account(r, old_node_id, new_node_id, fresh) ==
    Ret([r EXCEPT !.node_accounts = MapInsert(@, new_node_id, AwaitingStart)],
        send([type |-> "ClaimRewardCounter", old_node_id |-> old_node_id,
              new_node_id |-> new_node_id, id |-> fresh]))

\* a ledger that installs the claimed counter but never initiates the payout
receive_claimed_rewards_unpaid(r, id, node_id, counter) ==
    IF StageOf(r.node_accounts, node_id) # "AwaitingStart"
    THEN Ret(r, NoDuty)
    ELSE LET added == farming_add_account(r.farming, id, counter.work) IN
         IF added.ok
         THEN Ret([node_accounts |-> MapInsert(r.node_accounts, node_id, Active(id)),
                   farming |-> added.farming],
                  NoDuty)
         ELSE Ret(r, NoDuty)

\* a ledger that starts a relocated account from no work
receive_claimed_rewards_from_zero(r, id, node_id, counter) ==
    IF StageOf(r.node_accounts, node_id) # "AwaitingStart"
    THEN Ret(r, NoDuty)
    ELSE LET added == farming_add_account(r.farming, id, 0) IN
         IF added.ok
         THEN Ret([node_accounts |-> MapInsert(r.node_accounts, node_id, Active(id)),
                   farming |-> added.farming],
                  IF counter.reward > 0
                  THEN initiate_reward_payout(counter.reward, id)
                  ELSE NoDuty)
         ELSE Ret(r, NoDuty)

\* a ledger that does not validate the stage of the receiving account
receive_claimed_rewards_unvalidated(r, id, node_id, counter) ==
    LET added == farming_add_account(r.farming, id, counter.work) IN
    IF added.ok
    THEN Ret([node_accounts |-> MapInsert(r.node_accounts, node_id, Active(id)),
              farming |-> added.farming],
             IF counter.reward > 0
             THEN initiate_reward_payout(counter.reward, id)
             ELSE NoDuty)
    ELSE Ret(r, NoDuty)

\* 2. The old section sends back the claimed rewards.
receive_claimed_rewards(r, id, node_id, counter) ==
    IF node_id \notin DOMAIN r.node_accounts
    THEN Ret(r, NoDuty)
    ELSE IF r.node_accounts[node_id] # AwaitingStart
    THEN Ret(r, NoDuty)
    ELSE LET added == farming_add_account(r.farming, id, counter.work) IN
         IF added.ok
         THEN Ret([node_accounts |-> MapInsert(r.node_accounts, node_id, Active(id)),
                   farming |-> added.farming],
                  IF counter.reward > 0
                  THEN initiate_reward_payout(counter.reward, id)
                  ELSE NoDuty)
         ELSE Ret(r, NoDuty)

\* 3. Every write request accumulates reward.
accumulate_reward(r, data) ==
    Ret([r EXCEPT !.farming = farming_reward(@, data, Len(data), 2).farming], NoDuty)

\* a ledger that drops the account of a node that has left
node_left_dropping(r, node_id) ==
    IF node_id \in DOMAIN r.node_accounts /\ r.node_accounts[node_id].stage = "Active"
    THEN Ret([r EXCEPT !.node_accounts = MapRemove(@, node_id)], NoDuty)
    ELSE Ret(r, NoDuty)

\* 4. A node has left: its account awaits the move.
node_left(r, node_id) ==
    IF node_id \in DOMAIN r.node_accounts /\ r.node_accounts[node_id].stage = "Active"
    THEN Ret([r EXCEPT !.node_accounts =
                  MapInsert(@, node_id, AwaitingMove(r.node_accounts[node_id].id))],
             NoDuty)
    ELSE Ret(r, NoDuty)

\* a ledger that sends the counter of a claimed account and keeps both the
\* entry and the counter
claim_rewards_keeping(r, old_node_id, new_node_id, msg_id, origin, fresh) ==
    IF StageOf(r.node_accounts, old_node_id) \in {"None", "AwaitingStart"}
    THEN Ret(r, NoDuty)
    ELSE LET account == r.node_accounts[old_node_id] IN
         IF account.stage = "Active"
         THEN Ret(r, network_error("InvalidClaim", account.id, msg_id, origin))
         ELSE LET claimed == farming_claim(r.farming, account.id) IN
              IF ~claimed.ok
              THEN Ret(r, network_error("NoSuchAccount", account.id, msg_id, origin))
              ELSE Ret(r,
                       send([type |-> "RewardCounterClaimed",
                             new_node_id |-> new_node_id,
                             account_id |-> account.id,
                             counter |-> claimed.counter,
                             id |-> fresh,
                             correlation_id |-> msg_id]))

\* a ledger that lets the counter of an Active account be claimed
claim_rewards_of_active(r, old_node_id, new_node_id, msg_id, origin, fresh) ==
    IF StageOf(r.node_accounts, old_node_id) \in {"None", "AwaitingStart"}
    THEN Ret(r, NoDuty)
    ELSE LET account == r.node_accounts[old_node_id]
             claimed == farming_claim(r.farming, account.id)
         IN  IF ~claimed.ok
             THEN Ret(r, network_error("NoSuchAccount", account.id, msg_id, origin))
             ELSE Ret([node_accounts |-> MapRemove(r.node_accounts, old_node_id),
                       farming |-> claimed.farming],
                      send([type |-> "RewardCounterClaimed",
                            new_node_id |-> new_node_id,
                            account_id |-> account.id,
                            counter |-> claimed.counter,
                            id |-> fresh,
                            correlation_id |-> msg_id]))

\* 5. The new section claims the counter of a node that left us.
claim_rewards(r, old_node_id, new_node_id, msg_id, origin, fresh) ==
    IF old_node_id \notin DOMAIN r.node_accounts
    THEN Ret(r, NoDuty)
    ELSE LET account == r.node_accounts[old_node_id] IN
         IF account.stage = "AwaitingStart"
         THEN Ret(r, NoDuty)
         ELSE IF account.stage = "Active"
         THEN Ret(r, network_error("InvalidClaim", account.id, msg_id, origin))
         ELSE LET claimed == farming_claim(r.farming, account.id) IN
              IF ~claimed.ok
              THEN Ret(r, network_error("NoSuchAccount", account.id, msg_id, origin))
              ELSE Ret([node_accounts |-> MapRemove(r.node_accounts, old_node_id),
                        farming |-> claimed.farming],
                       send([type |-> "RewardCounterClaimed",
                             new_node_id |-> new_node_id,
                             account_id |-> account.id,
                             counter |-> claimed.counter,
                             id |-> fresh,
                             correlation_id |-> msg_id]))

\* Rewards::process: dispatch of a RewardDuty, the result wrapped as a node
\* operation when there is one
process(r, duty, fresh) ==
    LET result ==
          CASE duty.kind = "AccumulateReward" -> accumulate_reward(r, duty.data)
            [] duty.kind = "AddNewAccount" -> add_account(r, duty.id, duty.node_id)
            [] duty.kind = "AddRelocatedAccount" ->
                   add_relocated_account(r, duty.old_node_id, duty.new_node_id, fresh)
            [] duty.kind = "ClaimRewardCounter" ->
                   claim_rewards(r, duty.old_node_id, duty.new_node_id,
                                 duty.msg_id, duty.origin, fresh)
            [] duty.kind = "ReceiveClaimedRewards" ->
                   receive_claimed_rewards(r, duty.id, duty.node_id, duty.counter)
            [] duty.kind = "PrepareAccountMove" -> node_left(r, duty.node_id)
    IN  [rewards |-> result.rewards,
         out |-> IF result.duty = NoDuty
                 THEN NoDuty
                 ELSE [kind |-> "RunAsNode", duty |-> result.duty]]

(***************************************************************************)
(* The reward duties.                                                      *)
(***************************************************************************)
AccumulateRewardDuty(data) == [kind |-> "AccumulateReward", data |-> data]
AddNewAccountDuty(id, n) == [kind |-> "AddNewAccount", id |-> id, node_id |-> n]
AddRelocatedAccountDuty(old, new) ==
    [kind |-> "AddRelocatedAccount", old_node_id |-> old, new_node_id |-> new]
ClaimRewardCounterDuty(old, new, msg_id, origin) ==
    [kind |-> "ClaimRewardCounter", old_node_id |-> old, new_node_id |-> new,
     msg_id |-> msg_id, origin |-> origin]
ReceiveClaimedRewardsDuty(id, n, counter) ==
    [kind |-> "ReceiveClaimedRewards", id |-> id, node_id |-> n, counter |-> counter]
PrepareAccountMoveDuty(n) == [kind |-> "PrepareAccountMove", node_id |-> n]

(***************************************************************************)
(* Blobs and their addresses.                                              *)
(***************************************************************************)
\* the public keys of end users
Keys == {"k1", "k2"}
\* the nodes that hold chunks
ChunkNodes == {"A", "B"}

\* blob contents: a vector of n zero bytes for each length
Values == {[i \in 1..n |-> 0] : n \in 1..MaxBlobLen}

PublicBlob(v) == [kind |-> "Public", value |-> v, owner |-> "-"]
PrivateBlob(v, k) == [kind |-> "Private", value |-> v, owner |-> k]
Blobs == {PublicBlob(v) : v \in Values} \cup {PrivateBlob(v, k) : v \in Values, k \in Keys}

\* the content hash naming a blob: collision-free, not invertible
Sha3(x) == [sha3 |-> x]

\* Blob::address: the kind, and the hash of the bytes (and of the owner of a
\* private blob)
AddressOf(blob) ==
    [kind |-> blob.kind,
     name |-> IF blob.kind = "Public"
              THEN Sha3(<<blob.value>>)
              ELSE Sha3(<<blob.value, blob.owner>>)]

Addresses == {AddressOf(b) : b \in Blobs}

(***************************************************************************)
(* Chunk Store (A), modelled from section 4.1 of the specification.        *)
(* chunks: address -> blob on disk; used: bytes used; max: bytes allowed.  *)
(* io_ok tells whether the disk operation of this call succeeds.           *)
(***************************************************************************)
NewChunkStore == [chunks |-> EmptyMap, used |-> 0, max |-> MaxCapacity]

chunks_has(st, addr) == addr \in DOMAIN st.chunks

chunks_get(st, addr) ==
    IF addr \in DOMAIN st.chunks
    THEN [ok |-> TRUE, blob |-> st.chunks[addr], error |-> "-"]
    ELSE [ok |-> FALSE, blob |-> PublicBlob(<<>>), error |-> "NoSuchData"]

\* put: either the blob is stored and the used space grows by its length, or
\* nothing changes
chunks_put(st, blob, io_ok) ==
    IF AddressOf(blob) \in DOMAIN st.chunks
    THEN [ok |-> FALSE, error |-> "DataExists", store |-> st]
    ELSE IF st.used + Len(blob.value) > st.max
    THEN [ok |-> FALSE, error |-> "OutOfSpace", store |-> st]
    ELSE IF ~io_ok
    THEN [ok |-> FALSE, error |-> "IoFailure", store |-> st]
    ELSE [ok |-> TRUE, error |-> "-",
          store |-> [st EXCEPT !.chunks = MapInsert(@, AddressOf(blob), blob),
                               !.used = @ + Len(blob.value)]]

\* delete: the blob is removed and the used space shrinks by its length
chunks_delete(st, addr, io_ok) ==
    IF addr \notin DOMAIN st.chunks
    THEN [ok |-> FALSE, error |-> "NoSuchData", store |-> st]
    ELSE IF ~io_ok
    THEN [ok |-> FALSE, error |-> "IoFailure", store |-> st]
    ELSE [ok |-> TRUE, error |-> "-",
          store |-> [st EXCEPT !.chunks = MapRemove(@, addr),
                               !.used = @ - Len(st.chunks[addr].value)]]

(***************************************************************************)
(* Chunk Storage Service (B). Each method returns the store after the call *)
(* and the Result<NodeDuty> it returns.                                    *)
(***************************************************************************)
NoOp == [kind |-> "NoOp"]

\* MessageId::in_response_to
in_response_to(msg_id) == [in_response_to |-> msg_id]

\* the errors that have a wire value (section 6 of the specification)
WireErrors ==
    {"NoSuchData", "DataExists", "InvalidOwners", "FailedToDelete", "InvalidOperation",
     "NoSuchKey", "Serialization"}

\* error::convert_to_error_message: the wire error of a node error, or the
\* failure of the conversion. An error of the wire list converts to its wire
\* value. The resource errors of the chunk store are surfaced to the client
\* by sections 4.2 and 7 of the specification, and have no wire value in
\* section 6: has_mapping tells whether the conversion maps them
convert_to_error_message(error, has_mapping) ==
    IF error \in WireErrors \/ (has_mapping /\ error \in {"OutOfSpace", "IoFailure"})
    THEN [ok |-> TRUE, wire |-> [wire |-> error]]
    ELSE [ok |-> FALSE, wire |-> [wire |-> "-"]]

\* the Err a method returns when convert_to_error_message fails
NoErrorMapping == [kind |-> "Err", error |-> "NoErrorMapping"]

\* the CmdError sent to the end user who sent msg_id
CmdErrorTo(error, msg_id, origin) ==
    [kind |-> "Send",
     msg |-> [type |-> "CmdError", error |-> error, id |-> in_response_to(msg_id),
              correlation_id |-> msg_id],
     dst |-> [end_user |-> origin]]

Stored(st, duty) == [store |-> st, duty |-> duty]

\* a storage that writes a blob it already holds once more and counts its
\* bytes again
try_store_bumping(st, data, origin, io_ok) ==
    IF data.kind = "Private" /\ data.owner # origin
    THEN [ok |-> FALSE, error |-> "InvalidOwners", store |-> st]
    ELSE IF chunks_has(st, AddressOf(data))
    THEN [ok |-> FALSE, error |-> "DataExists",
          store |-> [st EXCEPT !.used = @ + Len(data.value)]]
    ELSE chunks_put(st, data, io_ok)

\* a storage that accepts a blob it already holds, as replication does
try_store_again(st, data, origin, io_ok) ==
    IF data.kind = "Private" /\ data.owner # origin
    THEN [ok |-> FALSE, error |-> "InvalidOwners", store |-> st]
    ELSE IF chunks_has(st, AddressOf(data))
    THEN [ok |-> TRUE, error |-> "-", store |-> st]
    ELSE chunks_put(st, data, io_ok)

\* a storage that does not compare the owner of a private blob with the origin
try_store_of_anyone(st, data, origin, io_ok) ==
    IF chunks_has(st, AddressOf(data))
    THEN [ok |-> FALSE, error |-> "DataExists", store |-> st]
    ELSE chunks_put(st, data, io_ok)

\* ChunkStorage::try_store: Ok or the error that refuses the blob
try_store(st, data, origin, io_ok) ==
    IF data.kind = "Private" /\ data.owner # origin
    THEN [ok |-> FALSE, error |-> "InvalidOwners", store |-> st]
    ELSE IF chunks_has(st, AddressOf(data))
    THEN [ok |-> FALSE, error |-> "DataExists", store |-> st]
    ELSE chunks_put(st, data, io_ok)

\* ChunkStorage::store
store(st, data, msg_id, origin, io_ok, has_mapping) ==
    LET tried == try_store(st, data, origin, io_ok)
        converted == convert_to_error_message(tried.error, has_mapping)
    IN  IF ~tried.ok
        THEN IF converted.ok
             THEN Stored(tried.store, CmdErrorTo(converted.wire, msg_id, origin))
             ELSE Stored(tried.store, NoErrorMapping)
        ELSE Stored(tried.store, NoOp)

\* a storage that answers nothing when the address is not stored, as it does
\* for replication
get_silent_on_miss(st, address, msg_id, origin) ==
    LET found == chunks_get(st, address) IN
    IF found.ok
    THEN Stored(st,
                [kind |-> "Send",
                 msg |-> [type |-> "QueryResponse",
                          response |-> [ok |-> TRUE, blob |-> found.blob],
                          id |-> in_response_to(msg_id),
                          correlation_id |-> msg_id],
                 dst |-> [end_user |-> origin]])
    ELSE Stored(st, NoOp)

\* ChunkStorage::get
get(st, address, msg_id, origin) ==
    LET found == chunks_get(st, address) IN
    Stored(st,
           [kind |-> "Send",
            msg |-> [type |-> "QueryResponse",
                     response |-> IF found.ok
                                  THEN [ok |-> TRUE, blob |-> found.blob]
                                  ELSE [ok |-> FALSE, error |-> [wire |-> "NoSuchData"]],
                     id |-> in_response_to(msg_id),
                     correlation_id |-> msg_id],
            dst |-> [end_user |-> origin]])

\* a client gateway that forwards every read
client_gateway_of_anyone(st, address, msg_id, origin) ==
    [forwarded |-> TRUE, res |-> get(st, address, msg_id, origin)]

\* the client gateway in front of the chunk storage (section 4.2 of the
\* specification: access control for private blobs is enforced at the
\* client-gateway layer). The read of a private blob by a key that is not
\* its owner is refused with an access error and never reaches the storage;
\* every other read is forwarded to ChunkStorage::get. The specification
\* does not say how the gateway learns the owner: the check is made on the
\* blob the address names
client_gateway(st, address, msg_id, origin) ==
    LET found == chunks_get(st, address) IN
    IF found.ok /\ found.blob.kind = "Private" /\ found.blob.owner # origin
    THEN [forwarded |-> FALSE,
          res |-> Stored(st,
                         [kind |-> "Send",
                          msg |-> [type |-> "QueryResponse",
                                   response |-> [ok |-> FALSE,
                                                 error |-> [wire |-> "AccessDenied"]],
                                   id |-> in_response_to(msg_id),
                                   correlation_id |-> msg_id],
                          dst |-> [end_user |-> origin]])]
    ELSE [forwarded |-> TRUE, res |-> get(st, address, msg_id, origin)]

\* ChunkStorage::replicate_chunk, at the node named node_name
replicate_chunk(st, node_name, address, current_holders, msg_id) ==
    Stored(st,
           [kind |-> "SendToNodes",
            msg |-> [type |-> "GetChunk", address |-> address,
                     new_holder |-> node_name, current_holders |-> {},
                     id |-> msg_id],
            targets |-> current_holders])

\* ChunkStorage::get_for_replication
get_for_replication(st, address, msg_id, new_holder) ==
    LET found == chunks_get(st, address) IN
    IF found.ok
    THEN Stored(st,
                [kind |-> "Send",
                 msg |-> [type |-> "GetChunkResponse", blob |-> found.blob,
                          id |-> in_response_to(msg_id), correlation_id |-> msg_id],
                 dst |-> [node |-> new_holder]])
    ELSE IF convert_to_error_message(found.error, FALSE).ok
         THEN Stored(st, NoOp)
         ELSE Stored(st, NoErrorMapping)

\* a storage that answers the replication of a blob it holds with an error
store_for_replication_refusing(st, blob, io_ok) ==
    IF chunks_has(st, AddressOf(blob))
    THEN Stored(st, [kind |-> "Err", error |-> "DataExists"])
    ELSE LET put == chunks_put(st, blob, io_ok) IN
         IF put.ok
         THEN Stored(put.store, NoOp)
         ELSE Stored(put.store, [kind |-> "Err", error |-> put.error])

\* a storage that acknowledges a replicated blob without writing it
store_for_replication_dropping(st, blob, io_ok) ==
    Stored(st, NoOp)

\* ChunkStorage::store_for_replication: a failed put is returned as an error
store_for_replication(st, blob, io_ok) ==
    IF chunks_has(st, AddressOf(blob))
    THEN Stored(st, NoOp)
    ELSE LET put == chunks_put(st, blob, io_ok) IN
         IF put.ok
         THEN Stored(put.store, NoOp)
         ELSE Stored(put.store, [kind |-> "Err", error |-> put.error])

\* a storage that reports a Delete of an address it does not hold
delete_reporting_missing(st, address, msg_id, origin, io_ok) ==
    IF ~chunks_has(st, address)
    THEN Stored(st, CmdErrorTo([wire |-> "NoSuchData"], msg_id, origin))
    ELSE LET found == chunks_get(st, address) IN
         IF found.blob.kind = "Private"
         THEN IF found.blob.owner = origin
              THEN LET deleted == chunks_delete(st, address, io_ok) IN
                   IF deleted.ok
                   THEN Stored(deleted.store, NoOp)
                   ELSE Stored(deleted.store,
                               CmdErrorTo([wire |-> "FailedToDelete"], msg_id, origin))
              ELSE Stored(st, CmdErrorTo([wire |-> "InvalidOwners"], msg_id, origin))
         ELSE Stored(st, CmdErrorTo([wire |-> "InvalidOperation"], msg_id, origin))

\* a storage that deletes a private blob for any origin
delete_by_anyone(st, address, msg_id, origin, io_ok) ==
    IF ~chunks_has(st, address)
    THEN Stored(st, NoOp)
    ELSE LET found == chunks_get(st, address) IN
         IF found.blob.kind = "Private"
         THEN LET deleted == chunks_delete(st, address, io_ok) IN
              IF deleted.ok
              THEN Stored(deleted.store, NoOp)
              ELSE Stored(deleted.store,
                          CmdErrorTo([wire |-> "FailedToDelete"], msg_id, origin))
         ELSE Stored(st, CmdErrorTo([wire |-> "InvalidOperation"], msg_id, origin))

\* a storage that deletes a public blob as it deletes a private blob of the
\* origin
delete_of_public(st, address, msg_id, origin, io_ok) ==
    IF ~chunks_has(st, address)
    THEN Stored(st, NoOp)
    ELSE LET found == chunks_get(st, address) IN
         IF found.blob.kind = "Private" /\ found.blob.owner # origin
         THEN Stored(st, CmdErrorTo([wire |-> "InvalidOwners"], msg_id, origin))
         ELSE LET deleted == chunks_delete(st, address, io_ok) IN
              IF deleted.ok
              THEN Stored(deleted.store, NoOp)
              ELSE Stored(deleted.store,
                          CmdErrorTo([wire |-> "FailedToDelete"], msg_id, origin))

\* ChunkStorage::delete
delete(st, address, msg_id, origin, io_ok) ==
    IF ~chunks_has(st, address)
    THEN Stored(st, NoOp)
    ELSE LET found == chunks_get(st, address) IN
         IF found.blob.kind = "Private"
         THEN IF found.blob.owner = origin
              THEN LET deleted == chunks_delete(st, address, io_ok) IN
                   IF deleted.ok
                   THEN Stored(deleted.store, NoOp)
                   ELSE Stored(deleted.store,
                               CmdErrorTo([wire |-> "FailedToDelete"], msg_id, origin))
              ELSE Stored(st, CmdErrorTo([wire |-> "InvalidOwners"], msg_id, origin))
         ELSE Stored(st, CmdErrorTo([wire |-> "InvalidOperation"], msg_id, origin))

(***************************************************************************)
(* Reward Calculator (C): unsigned arithmetic of the width of a token. An  *)
(* operation yields the set of outcomes the build can produce: its value,  *)
(* or on overflow a panic (overflow checks on) or the wrapped value (off). *)
(***************************************************************************)
MaxToken == 2^TokenBits - 1
Tokens == 0..MaxToken

Panic == [kind |-> "Panic"]
Token(nanos) == [kind |-> "Token", nanos |-> nanos]

\* a + b on unsigned integers
unsigned_add(a, b) ==
    IF a + b > MaxToken
    THEN {Panic, Token((a + b) % (MaxToken + 1))}
    ELSE {Token(a + b)}

\* a - b on unsigned integers
unsigned_sub(a, b) ==
    IF a < b
    THEN {Panic, Token((a - b) % (MaxToken + 1))}
    ELSE {Token(a - b)}

\* u64::min
u64_min(a, b) == IF a < b THEN a ELSE b

\* a reward calculator that mints as much as was paid, whatever supply is left
get_reward_and_mint_amount_uncapped(payments, section_managed, max_supply) ==
    IF max_supply > section_managed
    THEN unsigned_add(payments, payments)
    ELSE UNION {IF payments > excess.nanos
                THEN unsigned_sub(payments, excess.nanos)
                ELSE {Token(0)} :
                   excess \in unsigned_sub(section_managed, max_supply) \ {Panic}}

\* get_reward_and_mint_amount: the outcomes of the call
get_reward_and_mint_amount(payments, section_managed, max_supply) ==
    IF max_supply > section_managed
    THEN UNION {IF left = Panic
                THEN {Panic}
                ELSE unsigned_add(payments, u64_min(payments, left.nanos)) :
                   left \in unsigned_sub(max_supply, section_managed)}
    ELSE UNION {IF excess = Panic
                THEN {Panic}
                ELSE IF payments > excess.nanos
                THEN unsigned_sub(payments, excess.nanos)
                ELSE {Token(0)} :
                   excess \in unsigned_sub(section_managed, max_supply)}

(***************************************************************************)
(* Reward Calculator (C): the age-weighted distribution. overflow_checks   *)
(* tells how the build treats an overflow: a panic, or the wrapped value.  *)
(* The amounts drawn are small, the weights 2^age are not: a u64 that may  *)
(* be large is held as mant * 2^exp, which is exact for every product of   *)
(* the loop, and a mant of -1 stands for a computation that has panicked.  *)
(***************************************************************************)
MIN_REWARD_AGE == 6

\* the width in bits of u64
U64Bits == 64

Amounts == 0..(2^AmountBits - 1)
Ages == ((MIN_REWARD_AGE - 1)..MaxAge) \cup {U64Bits - 1, U64Bits}

\* the nodes of a section and the wallet key of each
RewardedNames == {"n1", "n2", "n3"}
WalletOf(n) == [wallet_of |-> n]
NodeMaps ==
    UNION {[set -> [age : Ages]] : set \in SUBSET RewardedNames}

\* the u64 mant * 2^exp
Wide(mant, exp) == [mant |-> mant, exp |-> exp]

\* 2_u64.pow(age): 2^age fits u64 up to age 63; from age 64 on it overflows,
\* and the wrapped value is 0
u64_pow2(age, overflow_checks) ==
    IF age >= U64Bits
    THEN IF overflow_checks THEN Wide(-1, 0) ELSE Wide(0, 0)
    ELSE Wide(1, age)

\* u64 multiplication of a by the count or multiplier b: the product
\* (a.mant * b) * 2^a.exp overflows when a.mant * b does not fit the
\* U64Bits - a.exp bits above the exponent, and wraps modulo 2^U64Bits
u64_mul(a, b, overflow_checks) ==
    IF a.mant < 0 \/ b < 0
    THEN Wide(-1, 0)
    ELSE LET room == U64Bits - a.exp
             fits == room > 30 \/ a.mant * b < 2^room
         IN  IF fits
             THEN Wide(a.mant * b, a.exp)
             ELSE IF overflow_checks
                  THEN Wide(-1, 0)
                  ELSE Wide((a.mant * b) % (2^room), a.exp)

\* u64::min of a product and the remaining amount
u64_min_wide(a, remaining_amount) ==
    IF a.mant = 0
    THEN 0
    ELSE IF a.exp > 30 \/ a.mant > remaining_amount \div (2^a.exp)
         THEN remaining_amount
         ELSE a.mant * 2^a.exp

\* u64 division: a division by zero panics in every build
u64_div(a, b) == IF a < 0 \/ b <= 0 THEN -1 ELSE a \div b

\* u64::max
u64_max(a, b) == IF a < 0 \/ b < 0 THEN -1 ELSE IF a > b THEN a ELSE b

\* remaining_amount.to_string().len(): the number of decimal digits
DecimalLen(n) == IF n < 10 THEN 1 ELSE IF n < 100 THEN 2 ELSE IF n < 1000 THEN 3 ELSE 4

\* the smallest and the largest element of a set of numbers or of names
MinOf(set) == CHOOSE x \in set : \A y \in set : x <= y
MaxOf(set) == CHOOSE x \in set : \A y \in set : y <= x
FirstName(set) ==
    IF "n1" \in set THEN "n1" ELSE IF "n2" \in set THEN "n2" ELSE "n3"

\* get_buckets: age -> (node name -> wallet) of the nodes of age >= 6
get_buckets(nodes) ==
    LET eligible == {n \in DOMAIN nodes : nodes[n].age >= MIN_REWARD_AGE} IN
    [age \in {nodes[n].age : n \in eligible} |->
        [n \in {x \in eligible : nodes[x].age = age} |-> WalletOf(n)]]

\* the outcomes of a distribution
Shares(map) == [kind |-> "Shares", shares |-> map]
Diverges == [kind |-> "Diverges"]

\* one step of the for loop of distribute, for the bucket of one age
BucketStep(st, age, wallets, bucket_multiplier, overflow_checks) ==
    LET proportional_work == u64_pow2(age, overflow_checks)
        product == u64_mul(u64_mul(proportional_work, Cardinality(DOMAIN wallets),
                                   overflow_checks),
                           bucket_multiplier, overflow_checks)
        reward == u64_min_wide(product, st.remaining_amount)
    IN  IF product.mant < 0
        THEN [st EXCEPT !.panicked = TRUE]
        ELSE [st EXCEPT !.counters = MapInsert(@, age,
                                        IF age \in DOMAIN @ THEN @[age] + reward ELSE reward),
                        !.remaining_amount = @ - reward]

\* the for loop of distribute over the buckets of ages, in ascending order,
\* left when nothing remains
RECURSIVE ForBuckets(_, _, _, _, _)
ForBuckets(st, ages, reward_buckets, bucket_multiplier, overflow_checks) ==
    IF ages = {} \/ st.panicked
    THEN st
    ELSE LET age == MinOf(ages)
             next == BucketStep(st, age, reward_buckets[age], bucket_multiplier,
                                overflow_checks)
         IN  IF next.panicked \/ next.remaining_amount = 0
             THEN next
             ELSE ForBuckets(next, ages \ {age}, reward_buckets, bucket_multiplier,
                             overflow_checks)

\* the while loop of distribute; a pass that awards nothing repeats for ever
RECURSIVE WhileRemaining(_, _, _, _)
WhileRemaining(st, reward_buckets, bucket_multiplier, overflow_checks) ==
    IF st.panicked \/ st.diverged \/ st.remaining_amount = 0
    THEN st
    ELSE LET next == ForBuckets(st, DOMAIN reward_buckets, reward_buckets,
                                bucket_multiplier, overflow_checks)
         IN  IF ~next.panicked /\ next.remaining_amount = st.remaining_amount
             THEN [next EXCEPT !.diverged = TRUE]
             ELSE WhileRemaining(next, reward_buckets, bucket_multiplier, overflow_checks)

\* the bucket a rewarded node is in
AgeOf(n, reward_buckets) ==
    CHOOSE age \in DOMAIN reward_buckets : n \in DOMAIN reward_buckets[age]

\* the shares with the remainder of each bucket left out
SharesOf_dropping_remainder(counters, reward_buckets) ==
    LET rewarded == UNION {DOMAIN reward_buckets[age] : age \in DOMAIN counters} IN
    [n \in rewarded |->
        LET age == AgeOf(n, reward_buckets)
            wallets == reward_buckets[age]
            wallet_count == Cardinality(DOMAIN wallets)
        IN  [age |-> age, wallet |-> wallets[n],
             share |-> counters[age] \div wallet_count]]

\* the last name of a set of names
LastName(set) ==
    IF "n3" \in set THEN "n3" ELSE IF "n2" \in set THEN "n2" ELSE "n1"

\* the shares with the remainder of each bucket given to its last wallet
SharesOf_remainder_to_last(counters, reward_buckets) ==
    LET rewarded == UNION {DOMAIN reward_buckets[age] : age \in DOMAIN counters} IN
    [n \in rewarded |->
        LET age == AgeOf(n, reward_buckets)
            wallets == reward_buckets[age]
            wallet_count == Cardinality(DOMAIN wallets)
            reward_per_wallet == counters[age] \div wallet_count
            remainder == counters[age] % wallet_count
        IN  [age |-> age, wallet |-> wallets[n],
             share |-> IF n = LastName(DOMAIN wallets)
                       THEN reward_per_wallet + remainder
                       ELSE reward_per_wallet]]

\* the shares of the wallets of the buckets that have a counter: the first
\* wallet of a bucket receives the remainder
SharesOf(counters, reward_buckets) ==
    LET rewarded == UNION {DOMAIN reward_buckets[age] : age \in DOMAIN counters} IN
    [n \in rewarded |->
        LET age == AgeOf(n, reward_buckets)
            wallets == reward_buckets[age]
            wallet_count == Cardinality(DOMAIN wallets)
            reward_per_wallet == counters[age] \div wallet_count
            remainder == counters[age] % wallet_count
        IN  [age |-> age, wallet |-> wallets[n],
             share |-> IF n = FirstName(DOMAIN wallets)
                       THEN reward_per_wallet + remainder
                       ELSE reward_per_wallet]]

\* distribute. max_age is at most 255 and the digits of a u64 at most 20:
\* max_age * node_count and max_age * digits are far below 2^U64Bits
distribute(amount, reward_buckets, overflow_checks) ==
    IF DOMAIN reward_buckets = {}
    THEN Shares(EmptyMap)
    ELSE LET max_age == MaxOf(DOMAIN reward_buckets)
             node_count == Cardinality(UNION {DOMAIN reward_buckets[a] :
                                                 a \in DOMAIN reward_buckets})
             share == u64_div(amount, max_age * node_count)
             divisor == max_age * DecimalLen(amount)
             bucket_multiplier == u64_max(1, u64_div(share, divisor))
         IN  IF bucket_multiplier < 0
             THEN Panic
             ELSE LET final == WhileRemaining([remaining_amount |-> amount,
                                               counters |-> EmptyMap,
                                               panicked |-> FALSE, diverged |-> FALSE],
                                              reward_buckets, bucket_multiplier,
                                              overflow_checks)
                  IN  IF final.panicked THEN Panic
                      ELSE IF final.diverged THEN Diverges
                      ELSE Shares(SharesOf(final.counters, reward_buckets))

\* distribute_rewards
distribute_rewards(amount, nodes, overflow_checks) ==
    distribute(amount, get_buckets(nodes), overflow_checks)

(***************************************************************************)
(* Node Event Loop (G). A duty in a list carries, besides what the source  *)
(* gives it, the number seq it was enqueued with while its routing event   *)
(* is handled, the seq of the duty whose handling produced it (parent, 0   *)
(* for the first duty) and its generation gen.                             *)
(***************************************************************************)
\* SrcLocation: where a message came from
Srcs == {[loc |-> "EndUser", name |-> "k1"], [loc |-> "Node", name |-> "n1"]}

\* Message: the two kinds of client message a context holds
Messages == [type : {"Process", "ProcessingError"}, id : MsgIds]

\* Option<MsgContext>
NoContext == [kind |-> "None"]
MsgContexts ==
    [kind : {"Msg"}, msg : Messages, src : Srcs] \cup [kind : {"Bytes"}, src : Srcs]

\* the errors of a component: the first has a wire value, the second (an
\* internal error) has none
NodeErrors == {"NoSuchData", "Logic"}

\* get_dst_from_src
get_dst_from_src(src) == src

\* a MessageId::new()
FreshId == "fresh"

\* the source_message of a ProcessingError that has none
NoMessage == [type |-> "None", id |-> "None"]

\* ProcessMsg::create_processing_error
create_processing_error(msg, reason) ==
    [reason |-> reason, source_message |-> msg, id |-> FreshId]

\* NodeDuty::SendError
SendError(msg, dst) == [kind |-> "SendError", msg |-> msg, dst |-> dst]

\* try_handle_error
try_handle_error(err, ctx) ==
    IF ctx.kind = "Msg"
    THEN IF ctx.msg.type = "Process"
         THEN IF err \in WireErrors
              THEN SendError(create_processing_error(ctx.msg, err), get_dst_from_src(ctx.src))
              ELSE NoOp
         ELSE NoOp
    ELSE IF ctx.kind = "Bytes"
    THEN SendError([reason |-> "Serialization", source_message |-> NoMessage, id |-> FreshId],
                   get_dst_from_src(ctx.src))
    ELSE NoOp

\* a duty with its place in the lists of the event being handled
Placed(duty, seq, parent, gen) ==
    [duty |-> duty, seq |-> seq, parent |-> parent, gen |-> gen]

\* a duty of a component
ComponentDuty == [kind |-> "Duty"]

\* Result<NodeDuties>: what handling a duty returns
Ok(count) == [kind |-> "Ok", count |-> count]
Err(error) == [kind |-> "Err", error |-> error]

\* Node::handle: a duty of a component returns follow-up duties or fails;
\* sending an error and NoOp return nothing. room is the number of duties the
\* event may still give rise to
handle(duty, room) ==
    IF duty.kind = "Duty"
    THEN {Ok(count) : count \in 0..u64_min(MaxFanout, room)}
            \cup {Err(error) : error \in IF room > 0 THEN NodeErrors ELSE {}}
    ELSE {Ok(0)}

\* the node before its stream delivers anything
NewNode ==
    [delivered |-> 0, ctx |-> NoContext, next_ops |-> <<>>, pending_node_ops |-> <<>>,
     enqueued |-> 0, handled |-> <<>>]

\* process_while_any, entered with the first duty of an event
process_while_any(n, op, ctx) ==
    [delivered |-> n.delivered + 1, ctx |-> ctx, next_ops |-> <<Placed(op, 1, 0, 0)>>,
     pending_node_ops |-> <<>>, enqueued |-> 1, handled |-> <<>>]

\* the duties that handling `placed` with `result` adds to the pending list
NewOps(n, placed, result) ==
    IF result.kind = "Ok"
    THEN [i \in 1..result.count |->
            Placed(ComponentDuty, n.enqueued + i, placed.seq, placed.gen + 1)]
    ELSE <<Placed(try_handle_error(result.error, n.ctx), n.enqueued + 1, placed.seq,
                  placed.gen + 1)>>

\* what the loop has handled: the duty and whether its handling failed
HandledDuty(placed, result) ==
    [seq |-> placed.seq, parent |-> placed.parent, gen |-> placed.gen,
     kind |-> placed.duty.kind, failed |-> result.kind = "Err"]

\* a loop that handles the follow-ups of a duty before the rest of its list
process_next_depth_first(n, result) ==
    LET placed == Head(n.next_ops)
        new_ops == NewOps(n, placed, result)
    IN  [n EXCEPT !.next_ops = new_ops \o Tail(n.next_ops),
                  !.enqueued = @ + Len(new_ops),
                  !.handled = Append(@, HandledDuty(placed, result))]

\* a loop that keeps as pending only what the last duty handled returned
process_next_forgetting(n, result) ==
    LET placed == Head(n.next_ops)
        new_ops == NewOps(n, placed, result)
        pending == new_ops
        rest == Tail(n.next_ops)
    IN  [n EXCEPT !.next_ops = IF rest = <<>> THEN pending ELSE rest,
                  !.pending_node_ops = IF rest = <<>> THEN <<>> ELSE pending,
                  !.enqueued = @ + Len(new_ops),
                  !.handled = Append(@, HandledDuty(placed, result))]

\* process_while_any, one turn of its for loop: the first duty of next_ops is
\* handled, what it returns goes to the end of pending_node_ops, and when
\* next_ops is used up the pending duties become the next ones
process_next(n, result) ==
    LET placed == Head(n.next_ops)
        new_ops == NewOps(n, placed, result)
        pending == n.pending_node_ops \o new_ops
        rest == Tail(n.next_ops)
    IN  [n EXCEPT !.next_ops = IF rest = <<>> THEN pending ELSE rest,
                  !.pending_node_ops = IF rest = <<>> THEN <<>> ELSE pending,
                  !.enqueued = @ + Len(new_ops),
                  !.handled = Append(@, HandledDuty(placed, result))]

(***************************************************************************)
(* One ledger under arbitrary reward duties (SpecLedger).                  *)
(***************************************************************************)
\* the section whose ledger SpecLedger drives
Ledger == "S1"

NoEvent == [section |-> "-", kind |-> "Init", node |-> "-"]

Init ==
    /\ rewards = [s \in Sections |-> NewRewards]
    /\ ev = NoEvent
    /\ out = NoDuty
    /\ network = {}
    /\ held_work = [a \in AccountIds |-> -1]
    /\ storage = [n \in ChunkNodes |-> NewChunkStore]
    /\ node = NewNode

\* the node name a duty is about (the key its handler looks up)
NodeOf(duty) ==
    CASE duty.kind \in {"AddNewAccount", "ReceiveClaimedRewards", "PrepareAccountMove"} ->
             duty.node_id
      [] duty.kind = "AddRelocatedAccount" -> duty.new_node_id
      [] duty.kind = "ClaimRewardCounter" -> duty.old_node_id
      [] OTHER -> "-"

\* what the model records of a handled duty: where, which kind, about which node
Handled(s, duty) == [section |-> s, kind |-> duty.kind, node |-> NodeOf(duty)]

\* section s handles one reward duty
Handle(s, duty, fresh) ==
    LET res == process(rewards[s], duty, fresh) IN
    /\ rewards' = [rewards EXCEPT ![s] = res.rewards]
    /\ ev' = Handled(s, duty)
    /\ out' = res.out

AddNewAccount ==
    /\ \E id \in AccountIds, n \in Names :
          Handle(Ledger, AddNewAccountDuty(id, n), "m1")
    /\ UNCHANGED <<network, held_work, storage, node>>

AddRelocatedAccount ==
    /\ \E old \in Names, new \in Names, fresh \in MsgIds :
          Handle(Ledger, AddRelocatedAccountDuty(old, new), fresh)
    /\ UNCHANGED <<network, held_work, storage, node>>

ReceiveClaimedRewards ==
    /\ \E id \in AccountIds, n \in Names, c \in Counters :
          Handle(Ledger, ReceiveClaimedRewardsDuty(id, n, c), "m1")
    /\ UNCHANGED <<network, held_work, storage, node>>

AccumulateReward ==
    /\ \E data \in DataSet : Handle(Ledger, AccumulateRewardDuty(data), "m1")
    /\ UNCHANGED <<network, held_work, storage, node>>

PrepareAccountMove ==
    /\ \E n \in Names : Handle(Ledger, PrepareAccountMoveDuty(n), "m1")
    /\ UNCHANGED <<network, held_work, storage, node>>

ClaimRewardCounter ==
    /\ \E old \in Names, new \in Names, msg_id \in MsgIds, origin \in Sections :
          Handle(Ledger, ClaimRewardCounterDuty(old, new, msg_id, origin), "m2")
    /\ UNCHANGED <<network, held_work, storage, node>>

LedgerNext ==
    \/ AddNewAccount
    \/ AddRelocatedAccount
    \/ ReceiveClaimedRewards
    \/ AccumulateReward
    \/ PrepareAccountMove
    \/ ClaimRewardCounter

SpecLedger == Init /\ [][LedgerNext]_vars

(***************************************************************************)
(* Two sections and the relocation messages between them (SpecRelocation). *)
(* Routing reports joined, relocated and left nodes to the section whose   *)
(* prefix holds the node's name; a ClaimRewardCounter command travels to   *)
(* the section of the old name, a RewardCounterClaimed event to the        *)
(* section of the new name. A node relocated in from a section outside the *)
(* model has its counter claimed there.                                    *)
(***************************************************************************)
\* a node name in the prefix of a section outside the model
OutsideName == "x"

\* the account ids of the nodes that routing reports
RelocIds == {"a1"}

\* the names a node relocated into section s may have had before
OldNamesFor(s) == {n \in Names \cup {OutsideName} : SectionOf(n) # s}

\* the messages a returned operation puts on the wire between sections
Sent(o) ==
    IF o.kind = "RunAsNode" /\ o.duty.kind = "Send"
       /\ o.duty.msg.type \in {"ClaimRewardCounter", "RewardCounterClaimed"}
    THEN {o.duty.msg}
    ELSE {}

\* account id has a counter in some section of the model or on the wire
Live(id) ==
    \/ \E s \in Sections : id \in DOMAIN rewards[s].farming.counters
    \/ \E m \in network : m.type = "RewardCounterClaimed" /\ m.account_id = id

\* section s handles a duty and its messages go on the wire; msgs leave it
HandleAndSend(s, duty, fresh, consumed) ==
    /\ Handle(s, duty, fresh)
    /\ network' = (network \ consumed) \cup Sent(process(rewards[s], duty, fresh).out)

NodeJoined ==
    /\ \E n \in Names, id \in RelocIds :
          HandleAndSend(SectionOf(n), AddNewAccountDuty(id, n), "m1", {})
    /\ UNCHANGED <<held_work, storage, node>>

NodeRelocated ==
    /\ \E new \in Names : \E old \in OldNamesFor(SectionOf(new)) :
          HandleAndSend(SectionOf(new), AddRelocatedAccountDuty(old, new), "m1", {})
    /\ UNCHANGED <<held_work, storage, node>>

NodeLeft ==
    /\ \E n \in Names : HandleAndSend(SectionOf(n), PrepareAccountMoveDuty(n), "m1", {})
    /\ UNCHANGED <<held_work, storage, node>>

Write ==
    /\ \E s \in Sections, data \in DataSet :
          HandleAndSend(s, AccumulateRewardDuty(data), "m1", {})
    /\ UNCHANGED <<held_work, storage, node>>

\* the old section receives the command and claims the counter
DeliverClaimRewardCounter ==
    \E m \in network :
      /\ m.type = "ClaimRewardCounter"
      /\ SectionOf(m.old_node_id) \in Sections
      /\ LET s == SectionOf(m.old_node_id)
             accounts == rewards[s].node_accounts
             counters == rewards[s].farming.counters
         IN  /\ HandleAndSend(s, ClaimRewardCounterDuty(m.old_node_id, m.new_node_id, m.id,
                                                        SectionOf(m.new_node_id)),
                              "m2", {m})
             /\ held_work' =
                   IF /\ StageOf(accounts, m.old_node_id) = "AwaitingMove"
                      /\ accounts[m.old_node_id].id \in DOMAIN counters
                   THEN [held_work EXCEPT ![accounts[m.old_node_id].id] =
                             counters[accounts[m.old_node_id].id].work]
                   ELSE held_work
      /\ UNCHANGED <<storage, node>>

\* a section outside the model receives the command and claims the counter
\* of an account that lived there
OutsideClaimRewardCounter ==
    \E m \in network, id \in RelocIds, c \in Counters :
      /\ m.type = "ClaimRewardCounter"
      /\ SectionOf(m.old_node_id) \notin Sections
      /\ ~Live(id)
      /\ network' = (network \ {m}) \cup
                       {[type |-> "RewardCounterClaimed", new_node_id |-> m.new_node_id,
                         account_id |-> id, counter |-> c, id |-> "m2",
                         correlation_id |-> m.id]}
      /\ held_work' = [held_work EXCEPT ![id] = c.work]
      /\ ev' = [section |-> "outside", kind |-> "ClaimRewardCounter",
                node |-> m.old_node_id]
      /\ out' = NoDuty
      /\ UNCHANGED <<rewards, storage, node>>

\* the new section receives the event and installs the counter
DeliverRewardCounterClaimed ==
    /\ \E m \in network :
          /\ m.type = "RewardCounterClaimed"
          /\ HandleAndSend(SectionOf(m.new_node_id),
                           ReceiveClaimedRewardsDuty(m.account_id, m.new_node_id, m.counter),
                           "m1", {m})
    /\ UNCHANGED <<held_work, storage, node>>

RelocationNext ==
    \/ NodeJoined
    \/ NodeRelocated
    \/ NodeLeft
    \/ Write
    \/ DeliverClaimRewardCounter
    \/ OutsideClaimRewardCounter
    \/ DeliverRewardCounterClaimed

SpecRelocation == Init /\ [][RelocationNext]_vars

(***************************************************************************)
(* The relocation of one node from section S1, where it is n1, to section  *)
(* S2, where it is n2, under fair delivery (SpecMove). Routing reports the *)
(* relocation to S2 and the leaving of n1 to S1, in any order and at any   *)
(* time; a message on the wire is delivered to its section in the end (the *)
(* event loop of the receiving node handles every message routing hands    *)
(* it). The reports of routing and the writes of clients are under no      *)
(* obligation to happen.                                                   *)
(***************************************************************************)
\* the ledger of a section where n1 was relocated to from outside and its
\* counter c of account id was claimed and received
MovedIn(id, c) ==
    receive_claimed_rewards(
        add_relocated_account(NewRewards, OutsideName, "n1", "m1").rewards,
        id, "n1", c).rewards

MoveInit ==
    /\ \E id \in AccountIds, c \in Counters :
          rewards = [s \in Sections |-> IF s = "S1" THEN MovedIn(id, c) ELSE NewRewards]
    /\ ev = NoEvent
    /\ out = NoDuty
    /\ network = {}
    /\ held_work = [a \in AccountIds |-> -1]
    /\ storage = [n \in ChunkNodes |-> NewChunkStore]
    /\ node = NewNode

\* routing reports to S2 that n2 was relocated there and was n1 before
MoveRelocated ==
    /\ "n2" \notin DOMAIN rewards["S2"].node_accounts
    /\ HandleAndSend("S2", AddRelocatedAccountDuty("n1", "n2"), "m1", {})
    /\ UNCHANGED <<held_work, storage, node>>

\* routing reports to S1 that n1 has left
MoveLeft ==
    /\ StageOf(rewards["S1"].node_accounts, "n1") = "Active"
    /\ HandleAndSend("S1", PrepareAccountMoveDuty("n1"), "m1", {})
    /\ UNCHANGED <<held_work, storage, node>>

MoveNext ==
    \/ MoveRelocated
    \/ MoveLeft
    \/ Write
    \/ DeliverClaimRewardCounter
    \/ DeliverRewardCounterClaimed

SpecMove ==
    /\ MoveInit
    /\ [][MoveNext]_vars
    /\ WF_vars(DeliverClaimRewardCounter)
    /\ WF_vars(DeliverRewardCounterClaimed)

(***************************************************************************)
(* One ledger whose RewardCounterClaimed events may be delivered again     *)
(* (SpecReplay). network holds an event that was delivered and accepted,   *)
(* and that the network may deliver once more, at any later time.          *)
(***************************************************************************)
\* the RewardCounterClaimed event for account id, node n and counter c
ClaimedEvent(id, n, c) ==
    [type |-> "RewardCounterClaimed", new_node_id |-> n, account_id |-> id, counter |-> c]

ReplayRelocated ==
    /\ \E old \in Names, new \in Names :
          Handle(Ledger, AddRelocatedAccountDuty(old, new), "m1")
    /\ UNCHANGED <<network, held_work, storage, node>>

\* a RewardCounterClaimed event is delivered; when the ledger accepts it (the
\* entry of the node becomes Active) the network may keep a copy
ReplayFirstDelivery ==
    \E id \in RelocIds, n \in Names, c \in Counters, kept \in BOOLEAN :
        /\ Handle(Ledger, ReceiveClaimedRewardsDuty(id, n, c), "m1")
        /\ network' = IF /\ kept
                         /\ network = {}
                         /\ StageOf(rewards[Ledger].node_accounts, n) = "AwaitingStart"
                         /\ StageOf(rewards'[Ledger].node_accounts, n) = "Active"
                      THEN {ClaimedEvent(id, n, c)}
                      ELSE network
        /\ UNCHANGED <<held_work, storage, node>>

\* the event the network kept is delivered again
ReplayLaterDelivery ==
    \E m \in network :
        LET duty == ReceiveClaimedRewardsDuty(m.account_id, m.new_node_id, m.counter)
            res == process(rewards[Ledger], duty, "m1")
        IN  /\ rewards' = [rewards EXCEPT ![Ledger] = res.rewards]
            /\ ev' = [Handled(Ledger, duty) EXCEPT !.kind = "ReceiveClaimedRewardsAgain"]
            /\ out' = res.out
            /\ UNCHANGED <<network, held_work, storage, node>>

ReplayWrite ==
    /\ \E data \in DataSet : Handle(Ledger, AccumulateRewardDuty(data), "m1")
    /\ UNCHANGED <<network, held_work, storage, node>>

ReplayLeft ==
    /\ \E n \in Names : Handle(Ledger, PrepareAccountMoveDuty(n), "m1")
    /\ UNCHANGED <<network, held_work, storage, node>>

ReplayClaim ==
    /\ \E old \in Names, new \in Names :
          Handle(Ledger, ClaimRewardCounterDuty(old, new, "m1", "S2"), "m2")
    /\ UNCHANGED <<network, held_work, storage, node>>

ReplayNext ==
    \/ ReplayRelocated
    \/ ReplayFirstDelivery
    \/ ReplayLaterDelivery
    \/ ReplayWrite
    \/ ReplayLeft
    \/ ReplayClaim

SpecReplay == Init /\ [][ReplayNext]_vars

(***************************************************************************)
(* One chunk storage under arbitrary requests (SpecChunks).                *)
(***************************************************************************)
\* the node whose chunk storage SpecChunks drives
Holder == "A"

\* what the model records of a handled request: which kind, at which address,
\* from which end user ("-" when the request names none), whether the storage
\* held a blob at the address before the request, and whether the request
\* removed it
Request(kind, addr, origin, held, removed) ==
    [section |-> Holder, kind |-> kind, node |-> addr, origin |-> origin,
     held |-> held, removed |-> removed]

\* the storage of the holder answers a request with res
Answer(kind, addr, origin, res) ==
    /\ storage' = [storage EXCEPT ![Holder] = res.store]
    /\ ev' = Request(kind, addr, origin, chunks_has(storage[Holder], addr),
                     chunks_has(storage[Holder], addr) /\ ~chunks_has(res.store, addr))
    /\ out' = res.duty
    /\ UNCHANGED <<rewards, network, held_work, node>>

Store ==
    \E data \in Blobs, msg_id \in MsgIds, origin \in Keys, io_ok \in BOOLEAN,
       has_mapping \in BOOLEAN :
        Answer("Store", AddressOf(data), origin,
               store(storage[Holder], data, msg_id, origin, io_ok, has_mapping))

Get ==
    \E address \in Addresses, msg_id \in MsgIds, origin \in Keys :
        Answer("Get", address, origin, get(storage[Holder], address, msg_id, origin))

Delete ==
    \E address \in Addresses, msg_id \in MsgIds, origin \in Keys, io_ok \in BOOLEAN :
        Answer("Delete", address, origin,
               delete(storage[Holder], address, msg_id, origin, io_ok))

ReplicateChunk ==
    \E address \in Addresses, current_holders \in SUBSET (ChunkNodes \ {Holder}),
       msg_id \in MsgIds :
        Answer("ReplicateChunk", address, "-",
               replicate_chunk(storage[Holder], Holder, address, current_holders, msg_id))

GetForReplication ==
    \E address \in Addresses, msg_id \in MsgIds, new_holder \in ChunkNodes \ {Holder} :
        Answer("GetForReplication", address, "-",
               get_for_replication(storage[Holder], address, msg_id, new_holder))

StoreForReplication ==
    \E blob \in Blobs, io_ok \in BOOLEAN :
        Answer("StoreForReplication", AddressOf(blob), "-",
               store_for_replication(storage[Holder], blob, io_ok))

ChunksNext ==
    \/ Store
    \/ Get
    \/ Delete
    \/ ReplicateChunk
    \/ GetForReplication
    \/ StoreForReplication

SpecChunks == Init /\ [][ChunksNext]_vars

(***************************************************************************)
(* The chunk storage behind the client gateway (SpecGateway). The commands *)
(* of clients reach ChunkStorage::store and ChunkStorage::delete, which    *)
(* check the owner themselves; their reads pass the client gateway, which  *)
(* section 4.2 of the specification puts in front of ChunkStorage::get.    *)
(***************************************************************************)
\* the read of a client: one the gateway forwards is answered by
\* ChunkStorage::get, one it refuses never reaches the storage
ClientGet ==
    \E address \in Addresses, msg_id \in MsgIds, origin \in Keys :
        LET answer == client_gateway(storage[Holder], address, msg_id, origin)
        IN  Answer(IF answer.forwarded THEN "Get" ELSE "GetDenied", address, origin,
                   answer.res)

GatewayNext ==
    \/ Store
    \/ ClientGet
    \/ Delete

SpecGateway == Init /\ [][GatewayNext]_vars

(***************************************************************************)
(* The replication of chunks from node B to node A (SpecReplicate).        *)
(* Clients store and delete blobs at B; routing tells A to replicate an    *)
(* address from a set of holders; the GetChunk query travels to each       *)
(* target and the response to the new holder. Each message on the wire is  *)
(* delivered in the end; at most MaxInFlight messages are on the wire.     *)
(***************************************************************************)
Requester == "A"
Source == "B"

\* the blobs that clients store at the source: the shortest and the longest
\* public blob, and the longest private blob of one owner
SourceBlobs ==
    {b \in Blobs : \/ b.kind = "Public" /\ Len(b.value) \in {1, MaxBlobLen}
                   \/ b.owner = "k1" /\ Len(b.value) = MaxBlobLen}
SourceAddresses == {AddressOf(b) : b \in SourceBlobs}

\* node n answers a request with res, and msgs replace the message consumed
AnswerAt(n, kind, addr, origin, res, consumed, msgs) ==
    /\ storage' = [storage EXCEPT ![n] = res.store]
    /\ ev' = [section |-> n, kind |-> kind, node |-> addr, origin |-> origin,
              held |-> chunks_has(storage[n], addr),
              removed |-> chunks_has(storage[n], addr) /\ ~chunks_has(res.store, addr)]
    /\ out' = res.duty
    /\ network' = (network \ consumed) \cup msgs
    /\ UNCHANGED <<rewards, held_work, node>>

\* the GetChunk queries a SendToNodes duty puts on the wire, one per target
QueriesOf(duty) ==
    IF duty.kind = "SendToNodes"
    THEN {[type |-> "GetChunk", to |-> t, address |-> duty.msg.address,
           new_holder |-> duty.msg.new_holder, id |-> duty.msg.id] : t \in duty.targets}
    ELSE {}

\* the response a Send duty puts on the wire
ResponsesOf(duty) ==
    IF duty.kind = "Send"
    THEN {[type |-> "GetChunkResponse", to |-> duty.dst.node, blob |-> duty.msg.blob,
           correlation_id |-> duty.msg.correlation_id]}
    ELSE {}

SourceStore ==
    \E data \in SourceBlobs, origin \in Keys, io_ok \in BOOLEAN, has_mapping \in BOOLEAN :
        AnswerAt(Source, "Store", AddressOf(data), origin,
                 store(storage[Source], data, "m1", origin, io_ok, has_mapping), {}, {})

SourceDelete ==
    \E address \in SourceAddresses, origin \in Keys, io_ok \in BOOLEAN :
        AnswerAt(Source, "Delete", address, origin,
                 delete(storage[Source], address, "m1", origin, io_ok), {}, {})

\* routing tells the requester to replicate an address from its holders
StartReplication ==
    \E address \in SourceAddresses, current_holders \in SUBSET {Source} :
        LET res == replicate_chunk(storage[Requester], Requester, address,
                                   current_holders, "m1")
        IN  /\ Cardinality(network \cup QueriesOf(res.duty)) <= MaxInFlight
            /\ AnswerAt(Requester, "ReplicateChunk", address, "-", res, {},
                        QueriesOf(res.duty))

\* a target receives the GetChunk query m
DeliverQuery(m) ==
    /\ m \in network
    /\ m.type = "GetChunk"
    /\ LET res == get_for_replication(storage[m.to], m.address, m.id, m.new_holder)
       IN  AnswerAt(m.to, "GetForReplication", m.address, "-", res, {m},
                    ResponsesOf(res.duty))

DeliverGetChunk == \E m \in network : DeliverQuery(m)

\* the new holder receives the response m and stores the blob
DeliverResponse(m) ==
    /\ m \in network
    /\ m.type = "GetChunkResponse"
    /\ \E io_ok \in BOOLEAN :
          AnswerAt(m.to, "StoreForReplication", AddressOf(m.blob), "-",
                   store_for_replication(storage[m.to], m.blob, io_ok), {m}, {})

DeliverGetChunkResponse == \E m \in network : DeliverResponse(m)

\* the queries and the responses that can be on the wire
Queries == UNION {QueriesOf(replicate_chunk(NewChunkStore, Requester, a, {Source}, "m1").duty) :
                     a \in SourceAddresses}
Responses == UNION {ResponsesOf(get_for_replication(chunks_put(NewChunkStore, b, TRUE).store,
                                                    AddressOf(b), "m1", Requester).duty) :
                       b \in SourceBlobs}

ReplicateNext ==
    \/ SourceStore
    \/ SourceDelete
    \/ StartReplication
    \/ DeliverGetChunk
    \/ DeliverGetChunkResponse

SpecReplicate ==
    /\ Init
    /\ [][ReplicateNext]_vars
    /\ \A m \in Queries : WF_vars(DeliverQuery(m))
    /\ \A m \in Responses : WF_vars(DeliverResponse(m))

(***************************************************************************)
(* The mint/burn calculation applied to any three amounts (SpecMint).      *)
(***************************************************************************)
MintInput(payments, section_managed, max_supply) ==
    [section |-> "-", kind |-> "MintInput", node |-> "-", payments |-> payments,
     section_managed |-> section_managed, max_supply |-> max_supply]

MintInit ==
    /\ rewards = [s \in Sections |-> NewRewards]
    /\ ev \in {MintInput(p, m, x) : p \in Tokens, m \in Tokens, x \in Tokens}
    /\ out = NoDuty
    /\ network = {}
    /\ held_work = [a \in AccountIds |-> -1]
    /\ storage = [n \in ChunkNodes |-> NewChunkStore]
    /\ node = NewNode

\* the calculator is called with the amounts drawn
Mint ==
    /\ ev.kind = "MintInput"
    /\ ev' = [ev EXCEPT !.kind = "Mint"]
    /\ out' \in get_reward_and_mint_amount(ev.payments, ev.section_managed, ev.max_supply)
    /\ UNCHANGED <<rewards, network, held_work, storage, node>>

MintNext == Mint

SpecMint == MintInit /\ [][MintNext]_vars

(***************************************************************************)
(* The distribution applied to any amount and node map (SpecDistribute).   *)
(***************************************************************************)
DistributeInput(amount, nodes) ==
    [section |-> "-", kind |-> "DistributeInput", node |-> "-", amount |-> amount,
     nodes |-> nodes]

DistributeInit ==
    /\ rewards = [s \in Sections |-> NewRewards]
    /\ ev \in {DistributeInput(amount, nodes) : amount \in Amounts, nodes \in NodeMaps}
    /\ out = NoDuty
    /\ network = {}
    /\ held_work = [a \in AccountIds |-> -1]
    /\ storage = [n \in ChunkNodes |-> NewChunkStore]
    /\ node = NewNode

\* the distribution is called with the amount and the nodes drawn
Distribute ==
    /\ ev.kind = "DistributeInput"
    /\ ev' = [ev EXCEPT !.kind = "Distribute"]
    /\ \E overflow_checks \in BOOLEAN :
          out' = distribute_rewards(ev.amount, ev.nodes, overflow_checks)
    /\ UNCHANGED <<rewards, network, held_work, storage, node>>

DistributeNext == Distribute

SpecDistribute == DistributeInit /\ [][DistributeNext]_vars

(***************************************************************************)
(* A node running its event loop over the stream (SpecLoop).               *)
(***************************************************************************)
\* the loop is between two events: the duties of the last one are used up
Idle == node.next_ops = <<>> /\ node.pending_node_ops = <<>>

\* what the loop did last; ctx is the context of an event that failed to map
LoopEvent(kind) == [section |-> "-", kind |-> kind, node |-> "-", ctx |-> NoContext]

\* Node::run: the next event of the stream maps to a duty and its context
RunMapped ==
    /\ Idle
    /\ node.delivered < MaxEvents
    /\ \E ctx \in MsgContexts \cup {NoContext} :
          node' = process_while_any(node, ComponentDuty, ctx)
    /\ ev' = LoopEvent("Mapped")
    /\ UNCHANGED <<rewards, out, network, held_work, storage>>

\* Node::run: the next event of the stream fails to map
RunMappingError ==
    /\ Idle
    /\ node.delivered < MaxEvents
    /\ \E msg \in MsgContexts, error \in NodeErrors \cup {"Serialization"} :
          /\ node' = process_while_any(node, try_handle_error(error, msg), NoContext)
          /\ ev' = [LoopEvent("MappingError") EXCEPT !.ctx = msg]
    /\ UNCHANGED <<rewards, out, network, held_work, storage>>

\* Node::process_while_any: the next duty is handled
ProcessNext ==
    /\ node.next_ops # <<>>
    /\ \E result \in handle(Head(node.next_ops).duty, MaxDuties - node.enqueued) :
          node' = process_next(node, result)
    /\ ev' = LoopEvent("Handled")
    /\ UNCHANGED <<rewards, out, network, held_work, storage>>

LoopNext ==
    \/ RunMapped
    \/ RunMappingError
    \/ ProcessNext

SpecLoop == Init /\ [][LoopNext]_vars

(***************************************************************************)
(* Properties of the Reward Ledger.                                        *)
(***************************************************************************)
\* the node-account map and the farming counters of the ledger SpecLedger drives
Accounts == rewards[Ledger].node_accounts
Farmed == rewards[Ledger].farming.counters

\* a returned operation that sends a RewardCounterClaimed event
IsCounterClaimed(o) ==
    /\ o.kind = "RunAsNode"
    /\ o.duty.kind = "Send"
    /\ o.duty.msg.type = "RewardCounterClaimed"

\* a change of one entry that the account lifecycle permits
PermittedChange(before, after) ==
    \/ before = after
    \/ before.stage = "None" /\ after.stage \in {"Active", "AwaitingStart"}
    \/ before.stage = "AwaitingStart" /\ after.stage = "Active"
    \/ before.stage = "Active" /\ after = AwaitingMove(before.id)
    \/ before.stage = "AwaitingMove" /\ after.stage = "None"

EntryOf(accounts, n) == IF n \in DOMAIN accounts THEN accounts[n] ELSE [stage |-> "None"]

\* C1: every change of a node's entry is one of absent -> Active,
\* absent -> AwaitingStart, AwaitingStart -> Active, Active -> AwaitingMove,
\* AwaitingMove -> absent.
C1_OnlyLifecycleChanges ==
    [][\A n \in Names :
          PermittedChange(EntryOf(Accounts, n), EntryOf(Accounts', n))]_vars

\* C2: AddNewAccount and AddRelocatedAccount for a node name that already has
\* an entry leave the ledger unchanged and emit no duty.
C2_AddNeverOverwrites ==
    [][/\ (ev'.kind = "AddNewAccount" /\ ev'.node \in DOMAIN Accounts) =>
             \A id \in AccountIds :
                 Handle(Ledger, AddNewAccountDuty(id, ev'.node), "m1")
                     => (rewards' = rewards /\ out' = NoDuty)
       /\ (ev'.kind = "AddRelocatedAccount" /\ ev'.node \in DOMAIN Accounts) =>
             \A old \in Names, fresh \in MsgIds :
                 Handle(Ledger, AddRelocatedAccountDuty(old, ev'.node), fresh)
                     => (rewards' = rewards /\ out' = NoDuty)]_vars

\* C3: ClaimRewardCounter(old, new, msg_id, origin) handled while old is
\* AwaitingMove(id) removes the entry of old and emits
\* RewardCounterClaimed{new, id, counter} correlated to msg_id.
C3_ClaimOfAwaitingMoveEmits ==
    [][(ev'.kind = "ClaimRewardCounter" /\ StageOf(Accounts, ev'.node) = "AwaitingMove") =>
          \A new \in Names, msg_id \in MsgIds, origin \in Sections :
              Handle(Ledger, ClaimRewardCounterDuty(ev'.node, new, msg_id, origin), "m2")
                  => /\ ev'.node \notin DOMAIN Accounts'
                     /\ IsCounterClaimed(out')
                     /\ out'.duty.msg.new_node_id = new
                     /\ out'.duty.msg.account_id = Accounts[ev'.node].id
                     /\ out'.duty.msg.correlation_id = msg_id]_vars

\* C4: claiming is exactly-once. Every RewardCounterClaimed that a
\* ClaimRewardCounter emits hands out the counter the farming system held for
\* the AwaitingMove account and removes both the entry and the counter, so
\* neither can be claimed again; a ClaimRewardCounter for a node without an
\* entry (a duplicate or a retry after the claim) emits nothing and changes
\* nothing.
C4_ClaimExactlyOnce ==
    [][ev'.kind = "ClaimRewardCounter" =>
          LET old == ev'.node IN
          /\ IsCounterClaimed(out')
               => /\ StageOf(Accounts, old) = "AwaitingMove"
                  /\ Accounts[old].id \in DOMAIN Farmed
                  /\ out'.duty.msg.account_id = Accounts[old].id
                  /\ out'.duty.msg.counter = Farmed[Accounts[old].id]
                  /\ old \notin DOMAIN Accounts'
                  /\ Accounts[old].id \notin DOMAIN Farmed'
          /\ old \notin DOMAIN Accounts
               => (out' = NoDuty /\ rewards' = rewards)]_vars

\* a counter was claimed and sent for the node of the last ClaimRewardCounter,
\* whose entry is gone
C4_Witness ==
    /\ ev.kind = "ClaimRewardCounter"
    /\ IsCounterClaimed(out)
    /\ ev.node \notin DOMAIN Accounts
    /\ out.duty.msg.account_id \notin DOMAIN Farmed

\* what ReceiveClaimedRewards(id, n, c) does when it is accepted
ReceiveInstalls(id, n, c) ==
    /\ Accounts'[n] = Active(id)
    /\ id \in DOMAIN Farmed'
    /\ Farmed'[id].work = c.work
    /\ \A a \in DOMAIN Farmed : a \in DOMAIN Farmed' /\ Farmed'[a] = Farmed[a]
    /\ IF c.reward > 0
       THEN out' = [kind |-> "RunAsNode", duty |-> initiate_reward_payout(c.reward, id)]
       ELSE out' = NoDuty

\* C5 as stated: ReceiveClaimedRewards(id, node, counter) handled while node
\* is AwaitingStart makes the entry Active(id), adds account id with work
\* counter.work, and emits a payout of counter.reward to id iff it is > 0.
C5_ReceiveAlwaysInstalls ==
    [][(ev'.kind = "ReceiveClaimedRewards" /\ StageOf(Accounts, ev'.node) = "AwaitingStart") =>
          \A id \in AccountIds, c \in Counters :
              Handle(Ledger, ReceiveClaimedRewardsDuty(id, ev'.node, c), "m1")
                  => ReceiveInstalls(id, ev'.node, c)]_vars

\* C5 amended: the same, provided the farming system has no account id yet;
\* when it has one the event is dropped: nothing changes, no duty is emitted.
C5_ReceiveInstallsNewAccount ==
    [][(ev'.kind = "ReceiveClaimedRewards" /\ StageOf(Accounts, ev'.node) = "AwaitingStart") =>
          \A id \in AccountIds, c \in Counters :
              Handle(Ledger, ReceiveClaimedRewardsDuty(id, ev'.node, c), "m1")
                  => IF id \in DOMAIN Farmed
                     THEN rewards' = rewards /\ out' = NoDuty
                     ELSE ReceiveInstalls(id, ev'.node, c)]_vars

\* a ReceiveClaimedRewards was accepted and a payout of the reward initiated
C5_Witness ==
    /\ ev.kind = "ReceiveClaimedRewards"
    /\ out.kind = "RunAsNode"
    /\ out.duty.kind = "RewardPayout"
    /\ out.duty.amount = MaxReward
    /\ StageOf(Accounts, ev.node) = "Active"
    /\ Accounts[ev.node].id = out.duty.to
    /\ out.duty.to \in DOMAIN Farmed

\* C7: ReceiveClaimedRewards for a node without an entry, or whose entry is
\* Active or AwaitingMove, changes neither the map nor the farming system and
\* emits no duty.
C7_ReceiveInWrongStateDropped ==
    [][(ev'.kind = "ReceiveClaimedRewards" /\ StageOf(Accounts, ev'.node) # "AwaitingStart") =>
          (rewards' = rewards /\ out' = NoDuty)]_vars

\* a ReceiveClaimedRewards was handled for a node that awaits its move
C7_Witness ==
    /\ ev.kind = "ReceiveClaimedRewards"
    /\ StageOf(Accounts, ev.node) = "AwaitingMove"
    /\ out = NoDuty

\* an InvalidClaim reply was returned for a node that is still Active
C8_Witness ==
    /\ ev.kind = "ClaimRewardCounter"
    /\ out.kind = "RunAsNode"
    /\ out.duty.kind = "Send"
    /\ out.duty.msg.type = "NetworkCmdError"
    /\ out.duty.msg.error = "InvalidClaim"
    /\ StageOf(Accounts, ev.node) = "Active"
    /\ out.duty.msg.account_id = Accounts[ev.node].id

\* C8: ClaimRewardCounter for a node whose entry is Active(id) replies
\* InvalidClaim to the caller for that msg_id; the entry stays Active(id), the
\* counter of id is not claimed, and the ledger goes on handling duties.
C8_ClaimOfActiveIsInvalidClaim ==
    /\ [][(ev'.kind = "ClaimRewardCounter" /\ StageOf(Accounts, ev'.node) = "Active") =>
             \A new \in Names, msg_id \in MsgIds, origin \in Sections :
                 Handle(Ledger, ClaimRewardCounterDuty(ev'.node, new, msg_id, origin), "m2")
                     => /\ out' = [kind |-> "RunAsNode",
                                   duty |-> network_error("InvalidClaim",
                                                          Accounts[ev'.node].id,
                                                          msg_id, origin)]
                        /\ rewards' = rewards]_vars
    /\ [](C8_Witness => ENABLED LedgerNext)

\* C31: AddRelocatedAccount(old, new) for a node name without an entry
\* inserts new -> AwaitingStart, which binds no account id, leaves every
\* other entry and the farming system as they were, and emits exactly one
\* ClaimRewardCounter command for old and new.
C31_AddRelocatedInsertsAndClaims ==
    [][(ev'.kind = "AddRelocatedAccount" /\ ev'.node \notin DOMAIN Accounts) =>
          \A old \in Names, fresh \in MsgIds :
              Handle(Ledger, AddRelocatedAccountDuty(old, ev'.node), fresh)
                  => /\ Accounts' = MapInsert(Accounts, ev'.node, AwaitingStart)
                     /\ DOMAIN AwaitingStart = {"stage"}
                     /\ rewards'[Ledger].farming = rewards[Ledger].farming
                     /\ out' = [kind |-> "RunAsNode",
                                duty |-> send([type |-> "ClaimRewardCounter",
                                               old_node_id |-> old,
                                               new_node_id |-> ev'.node,
                                               id |-> fresh])]]_vars

\* a relocated node was added next to an account that is in the farming
\* system, and the counter of its old name n1 asked for
C31_Witness ==
    /\ ev.kind = "AddRelocatedAccount"
    /\ ev.node = "n2"
    /\ Accounts["n2"] = AwaitingStart
    /\ StageOf(Accounts, "n1") = "Active"
    /\ Farmed # EmptyMap
    /\ out.kind = "RunAsNode"
    /\ out.duty.msg.type = "ClaimRewardCounter"
    /\ out.duty.msg.old_node_id = "n1"
    /\ out.duty.msg.new_node_id = "n2"

\* C32: PrepareAccountMove(node) changes the map only when the entry of node
\* is Active(id), which becomes AwaitingMove(id) with the same id; an entry
\* that is absent, AwaitingStart or AwaitingMove stays as it is. It emits no
\* duty, leaves the farming system alone and changes no other entry.
C32_PrepareMovesOnlyActive ==
    [][ev'.kind = "PrepareAccountMove" =>
          /\ out' = NoDuty
          /\ rewards'[Ledger].farming = rewards[Ledger].farming
          /\ IF StageOf(Accounts, ev'.node) = "Active"
             THEN Accounts' = MapInsert(Accounts, ev'.node,
                                        AwaitingMove(Accounts[ev'.node].id))
             ELSE Accounts' = Accounts]_vars

\* the account of a node that left awaits its move, next to another entry
C32_Witness ==
    /\ ev.kind = "PrepareAccountMove"
    /\ StageOf(Accounts, ev.node) = "AwaitingMove"
    /\ \E n \in DOMAIN Accounts : n # ev.node
    /\ Farmed # EmptyMap
    /\ out = NoDuty

(***************************************************************************)
(* Properties of the relocation of an account between sections.            *)
(***************************************************************************)
CountersOf(s) == rewards[s].farming.counters

\* C6: work is monotonic across relocations. The work with which an account
\* is added to a section's farming system is at least (indeed exactly) the
\* work its old section held for it when it was claimed, and the counter a
\* section puts on the wire is the one it held.
C6_WorkMonotonicAcrossRelocation ==
    [][/\ \A s \in Sections, id \in AccountIds :
             (id \notin DOMAIN CountersOf(s) /\ id \in DOMAIN CountersOf(s)')
                 => /\ held_work[id] >= 0
                    /\ CountersOf(s)'[id].work >= held_work[id]
                    /\ CountersOf(s)'[id].work = held_work[id]
       /\ \A m \in network' \ network :
             m.type = "RewardCounterClaimed" => m.counter.work = held_work'[m.account_id]]_vars

\* section S2 has installed the counter S1 held, after the account gained
\* work in the model: more work than any counter coming from outside
C6_Witness ==
    /\ ev.kind = "ReceiveClaimedRewards"
    /\ ev.section = "S2"
    /\ StageOf(rewards["S2"].node_accounts, "n2") = "Active"
    /\ rewards["S2"].node_accounts["n2"].id \in DOMAIN CountersOf("S2")
    /\ LET id == rewards["S2"].node_accounts["n2"].id IN
       /\ CountersOf("S2")[id].work = held_work[id]
       /\ held_work[id] > MaxWork

\* the places that hold the counter of an account: the farming systems of
\* the sections and the RewardCounterClaimed events on the wire
HoldersOf(id) ==
    {s \in Sections : id \in DOMAIN CountersOf(s)}

\* the RewardCounterClaimed events on the wire that carry the counter of id
InFlightOf(id) ==
    {m \in network : m.type = "RewardCounterClaimed" /\ m.account_id = id}

\* section s puts a RewardCounterClaimed event on the wire in this step
HandsOut(s) ==
    /\ ev'.kind = "ClaimRewardCounter"
    /\ ev'.section = s
    /\ IsCounterClaimed(out')

\* section s makes the entry of a node Active(id) through a claim in this step
Installs(s, id) ==
    /\ ev'.kind = "ReceiveClaimedRewards"
    /\ ev'.section = s
    /\ StageOf(rewards[s].node_accounts, ev'.node) = "AwaitingStart"
    /\ rewards'[s].node_accounts[ev'.node] = Active(id)

\* C34: the transfer of a counter across sections is a move, never a copy.
\* The section that hands a counter out keeps neither the entry of the old
\* node name nor the counter; when the new section's entry becomes Active(id)
\* through a claim, the counter of id is in that section only; and in every
\* state the counter of an account is held in one place at most.
C34_CounterMovesNeverCopies ==
    /\ [](\A id \in AccountIds :
            Cardinality(HoldersOf(id)) + Cardinality(InFlightOf(id)) <= 1)
    /\ [][\A s \in Sections :
             /\ HandsOut(s)
                  => /\ ev'.node \notin DOMAIN rewards'[s].node_accounts
                     /\ out'.duty.msg.account_id \notin DOMAIN CountersOf(s)'
                     /\ out'.duty.msg.counter = CountersOf(s)[out'.duty.msg.account_id]
             /\ \A id \in AccountIds :
                   Installs(s, id) => (HoldersOf(id)' = {s} /\ InFlightOf(id)' = {})]_vars

\* section S2 made n2 Active through the claim of a counter that section S1
\* had held: S1 has neither the entry of n1 nor the counter any more
C34_Witness ==
    /\ ev.kind = "ReceiveClaimedRewards"
    /\ ev.section = "S2"
    /\ StageOf(rewards["S2"].node_accounts, "n2") = "Active"
    /\ LET id == rewards["S2"].node_accounts["n2"].id IN
       /\ HoldersOf(id) = {"S2"}
       /\ InFlightOf(id) = {}
       /\ CountersOf("S2")[id].work = held_work[id]
       /\ held_work[id] > MaxWork
    /\ "n1" \notin DOMAIN rewards["S1"].node_accounts

\* C35: every entry that is Active(id) or AwaitingMove(id) has a counter for
\* id in the farming system, however the entry was created, so that a claim
\* of an AwaitingMove account cannot fail for a missing account.
C35_EveryAccountIsFarmed ==
    \A n \in DOMAIN Accounts :
        Accounts[n].stage \in {"Active", "AwaitingMove"} => Accounts[n].id \in DOMAIN Farmed

\* C37: a payout is initiated at most once per relocated account. Of the
\* deliveries of one RewardCounterClaimed event only the first adds the
\* account to the farming system and emits a payout; every later delivery
\* changes nothing and emits nothing.
C37_LaterDeliveryChangesNothing ==
    [][ev'.kind = "ReceiveClaimedRewardsAgain"
          => (rewards' = rewards /\ out' = NoDuty)]_vars

(***************************************************************************)
(* Properties of the Chunk Storage Service.                                *)
(***************************************************************************)
Disk == storage[Holder]

\* an origin that may store the blob: any for a public blob, the owner for a
\* private one
Permitted(data, origin) == data.kind = "Public" \/ data.owner = origin

\* C9: store idempotence. A Store, by a permitted origin, of a blob that is
\* already stored emits a DataExists command error to the origin; the store
\* holds the same blobs, the blob's bytes are unchanged and the used space
\* has not grown.
C9_SecondStoreIsDataExists ==
    [][(ev'.kind = "Store" /\ chunks_has(Disk, ev'.node)) =>
          \A data \in Blobs, msg_id \in MsgIds, io_ok \in BOOLEAN, has_mapping \in BOOLEAN :
              (/\ AddressOf(data) = ev'.node
               /\ Permitted(data, ev'.origin)
               /\ Answer("Store", ev'.node, ev'.origin,
                         store(Disk, data, msg_id, ev'.origin, io_ok, has_mapping)))
                  => /\ out' = CmdErrorTo([wire |-> "DataExists"], msg_id, ev'.origin)
                     /\ DOMAIN Disk'.chunks = DOMAIN Disk.chunks
                     /\ Disk'.chunks[ev'.node] = data
                     /\ Disk'.chunks = Disk.chunks
                     /\ Disk'.used <= Disk.used]_vars

\* a Store of a stored blob was answered with DataExists
C9_Witness ==
    /\ ev.kind = "Store"
    /\ out.kind = "Send"
    /\ out.msg.error = [wire |-> "DataExists"]
    /\ chunks_has(Disk, ev.node)
    /\ Permitted(Disk.chunks[ev.node], ev.origin)

\* C10: private ownership on store. A Store of a private blob by an origin
\* that is not its owner emits InvalidOwners to the origin and stores
\* nothing: an address that was not stored is still not stored, and a Get of
\* it answers NoSuchData.
C10_StoreByNonOwnerRefused ==
    [][(ev'.kind = "Store" /\ ev'.node.kind = "Private") =>
          \A data \in Blobs, msg_id \in MsgIds, io_ok \in BOOLEAN, has_mapping \in BOOLEAN :
              (/\ AddressOf(data) = ev'.node
               /\ data.owner # ev'.origin
               /\ Answer("Store", ev'.node, ev'.origin,
                         store(Disk, data, msg_id, ev'.origin, io_ok, has_mapping)))
                  => /\ out' = CmdErrorTo([wire |-> "InvalidOwners"], msg_id, ev'.origin)
                     /\ Disk' = Disk
                     /\ ~chunks_has(Disk, ev'.node) =>
                           /\ ~chunks_has(Disk', ev'.node)
                           /\ \A m \in MsgIds, o \in Keys :
                                 get(Disk', ev'.node, m, o).duty.msg.response =
                                     [ok |-> FALSE, error |-> [wire |-> "NoSuchData"]]]_vars

\* a Store of a private blob by another key was answered with InvalidOwners,
\* in a store that holds other blobs and not this one
C10_Witness ==
    /\ ev.kind = "Store"
    /\ out.kind = "Send"
    /\ out.msg.error = [wire |-> "InvalidOwners"]
    /\ ~chunks_has(Disk, ev.node)
    /\ DOMAIN Disk.chunks # {}

\* the command error the holder sends to origin, whatever message it answers
IsCmdError(o, error, origin) ==
    /\ o.kind = "Send"
    /\ o.msg.type = "CmdError"
    /\ o.msg.error = [wire |-> error]
    /\ o.dst = [end_user |-> origin]

\* C11: public deletion. A Delete addressed to a public blob, stored or not,
\* by any origin, returns an InvalidOperation error to the caller and removes
\* nothing.
C11_PublicDeleteIsInvalidOperation ==
    [][(ev'.kind = "Delete" /\ ev'.node.kind = "Public") =>
          (IsCmdError(out', "InvalidOperation", ev'.origin) /\ Disk' = Disk)]_vars

\* a private blob is stored at the address of the request of this step
DeleteOfStoredPrivate ==
    /\ ev'.kind = "Delete"
    /\ chunks_has(Disk, ev'.node)
    /\ Disk.chunks[ev'.node].kind = "Private"

\* a stored private blob leaves the store only in a Delete by its owner
RemovedOnlyByOwner ==
    \A a \in DOMAIN Disk.chunks :
        (Disk.chunks[a].kind = "Private" /\ ~chunks_has(Disk', a))
            => (ev'.kind = "Delete" /\ ev'.node = a /\ ev'.origin = Disk.chunks[a].owner)

\* C12 as stated: a Delete of a stored private blob by another key emits
\* InvalidOwners and leaves the blob stored; a Delete by the owner emits no
\* error and afterwards the address is not stored; a stored private blob is
\* removed only by a Delete of its owner.
C12_OwnerDeleteAlwaysRemoves ==
    [][/\ DeleteOfStoredPrivate =>
             IF ev'.origin # Disk.chunks[ev'.node].owner
             THEN IsCmdError(out', "InvalidOwners", ev'.origin) /\ Disk' = Disk
             ELSE out' = NoOp /\ ~chunks_has(Disk', ev'.node)
       /\ RemovedOnlyByOwner]_vars

\* C12 amended: the same, where a Delete by the owner removes the blob and
\* emits nothing when the chunk store deletes it, and emits FailedToDelete
\* and leaves the blob stored when the chunk store fails to.
C12_OwnerDeleteRemovesUnlessStoreFails ==
    [][/\ DeleteOfStoredPrivate =>
             IF ev'.origin # Disk.chunks[ev'.node].owner
             THEN IsCmdError(out', "InvalidOwners", ev'.origin) /\ Disk' = Disk
             ELSE \A msg_id \in MsgIds, io_ok \in BOOLEAN :
                      Answer("Delete", ev'.node, ev'.origin,
                             delete(Disk, ev'.node, msg_id, ev'.origin, io_ok))
                          => IF io_ok
                             THEN /\ out' = NoOp
                                  /\ ~chunks_has(Disk', ev'.node)
                                  /\ DOMAIN Disk'.chunks = DOMAIN Disk.chunks \ {ev'.node}
                             ELSE /\ out' = CmdErrorTo([wire |-> "FailedToDelete"],
                                                        msg_id, ev'.origin)
                                  /\ Disk' = Disk
       /\ RemovedOnlyByOwner]_vars

\* the owner of a private blob has deleted it, with another blob still stored
C12_Witness ==
    /\ ev.kind = "Delete"
    /\ ev.removed
    /\ ev.node.kind = "Private"
    /\ out = NoOp
    /\ ~chunks_has(Disk, ev.node)
    /\ DOMAIN Disk.chunks # {}

\* C13: after its owner has deleted a private blob, a second Delete of the
\* same address by the same owner returns a NoSuchData error to the caller.
C13_SecondDeleteIsNoSuchData ==
    [][(/\ ev.kind = "Delete"
        /\ ev.removed
        /\ ev.node.kind = "Private"
        /\ ev'.kind = "Delete"
        /\ ev'.node = ev.node
        /\ ev'.origin = ev.origin)
          => IsCmdError(out', "NoSuchData", ev'.origin)]_vars

\* C14: a Delete of an address that is not stored emits no duty and leaves
\* the stored blobs and the used space unchanged, for any origin and for
\* public and private addresses.
C14_DeleteOfMissingIsSilent ==
    [][(ev'.kind = "Delete" /\ ~chunks_has(Disk, ev'.node))
          => (out' = NoOp /\ Disk' = Disk)]_vars

\* a Delete of a private address that is not stored was handled by a storage
\* that holds other blobs
C14_Witness ==
    /\ ev.kind = "Delete"
    /\ ev.node.kind = "Private"
    /\ ~ev.removed
    /\ ~chunks_has(Disk, ev.node)
    /\ out = NoOp
    /\ Disk.used > 0

\* the sum of the lengths of the blobs stored at the addresses of set
RECURSIVE SumOfLengths(_, _)
SumOfLengths(chunks, set) ==
    IF set = {}
    THEN 0
    ELSE LET a == CHOOSE x \in set : TRUE
         IN  Len(chunks[a].value) + SumOfLengths(chunks, set \ {a})

\* the last step returned an error: a command error or a failed result
Failed(o) == o.kind = "Err" \/ (o.kind = "Send" /\ o.msg.type = "CmdError")

\* C15: used-space consistency. After any sequence of Store,
\* StoreForReplication and Delete the used space is the sum of the lengths of
\* the stored blobs; an operation that fails, or that is refused because the
\* blob is already stored, changes neither the stored blobs nor the used
\* space.
C15_UsedSpaceIsSumOfLengths ==
    /\ [](Disk.used = SumOfLengths(Disk.chunks, DOMAIN Disk.chunks))
    /\ [][(Failed(out') \/ (ev'.kind \in {"Store", "StoreForReplication"}
                               /\ chunks_has(Disk, ev'.node)))
              => Disk' = Disk]_vars

\* a Store was refused for lack of space by a storage that holds two blobs:
\* the error has no wire value and the Store returns it
C15_Witness ==
    /\ ev.kind = "Store"
    /\ out = NoErrorMapping
    /\ Disk.used + Len(ev.node.name.sha3[1]) > Disk.max
    /\ Cardinality(DOMAIN Disk.chunks) >= 2
    /\ Disk.used = SumOfLengths(Disk.chunks, DOMAIN Disk.chunks)
    /\ Disk.used > 0

\* the answer of a Get when no blob is stored at the address
NoSuchDataResponse == [ok |-> FALSE, error |-> [wire |-> "NoSuchData"]]

\* the last step sent one GetBlob query response to origin
IsGetBlobResponse(o, origin) ==
    /\ o.kind = "Send"
    /\ o.msg.type = "QueryResponse"
    /\ o.dst = [end_user |-> origin]
    /\ \E msg_id \in MsgIds :
          o.msg.id = in_response_to(msg_id) /\ o.msg.correlation_id = msg_id

\* C16: Get round-trip. A Get emits one GetBlob query response to the origin:
\* the blob stored at the address (whose address it is) when one is stored,
\* NoSuchData when none is, in particular right after the blob was deleted;
\* right after a successful Store it carries the stored blob. A Get never
\* changes the store.
C16_GetAnswersWhatIsStored ==
    [][ev'.kind = "Get" =>
          /\ IsGetBlobResponse(out', ev'.origin)
          /\ Disk' = Disk
          /\ IF chunks_has(Disk, ev'.node)
             THEN /\ out'.msg.response = [ok |-> TRUE, blob |-> Disk.chunks[ev'.node]]
                  /\ AddressOf(out'.msg.response.blob) = ev'.node
             ELSE out'.msg.response = NoSuchDataResponse
          /\ (ev.kind = "Delete" /\ ev.removed /\ ev.node = ev'.node)
                => out'.msg.response = NoSuchDataResponse
          /\ (ev.kind = "Store" /\ out = NoOp /\ ev.node = ev'.node)
                => (out'.msg.response.ok /\ AddressOf(out'.msg.response.blob) = ev.node)]_vars

\* a Get was answered with the blob stored at its address, one of the longest
C16_Witness ==
    /\ ev.kind = "Get"
    /\ IsGetBlobResponse(out, ev.origin)
    /\ chunks_has(Disk, ev.node)
    /\ out.msg.response = [ok |-> TRUE, blob |-> Disk.chunks[ev.node]]
    /\ Len(out.msg.response.blob.value) = MaxBlobLen

Minted == ev.kind = "Mint" /\ out.kind = "Token"

\* C18: mint bound. The amount returned is at most 2 * payments; when
\* max_supply > section_managed the minted part, the result less the
\* payments, is at most payments and leaves section_managed + minted within
\* max_supply.
C18_MintBound ==
    Minted =>
        /\ out.nanos <= 2 * ev.payments
        /\ ev.max_supply > ev.section_managed =>
              LET minted == out.nanos - ev.payments IN
              /\ minted <= ev.payments
              /\ ev.section_managed + minted <= ev.max_supply

\* the supply left capped the mint: less was minted than was paid
C18_Witness ==
    /\ Minted
    /\ ev.max_supply > ev.section_managed
    /\ ev.payments > ev.max_supply - ev.section_managed
    /\ out.nanos = ev.payments + (ev.max_supply - ev.section_managed)
    /\ out.nanos > ev.payments

\* the mint/burn formula of the specification, on the integers
MintBurnFormula(payments, section_managed, max_supply) ==
    IF max_supply > section_managed
    THEN payments + (IF payments < max_supply - section_managed
                     THEN payments
                     ELSE max_supply - section_managed)
    ELSE LET excess == section_managed - max_supply IN
         IF payments > excess THEN payments - excess ELSE 0

\* C19: for every input the calculator returns the amount of the mint/burn
\* formula.
C19_MintEqualsFormula ==
    ev.kind = "Mint" =>
        out = Token(MintBurnFormula(ev.payments, ev.section_managed, ev.max_supply))

\* the distribution has returned shares for the inputs of ev
Distributed == ev.kind = "Distribute" /\ out.kind = "Shares"

\* the input nodes old enough to be rewarded
Eligible(nodes) == {n \in DOMAIN nodes : nodes[n].age >= MIN_REWARD_AGE}

\* the sum of the shares of the nodes of set
RECURSIVE SumOfShares(_, _)
SumOfShares(shares, set) ==
    IF set = {}
    THEN 0
    ELSE LET n == CHOOSE x \in set : TRUE
         IN  shares[n].share + SumOfShares(shares, set \ {n})

\* C20: distribute total. When at least one node has age >= 6 the shares
\* returned sum to exactly the amount; when none has, the result is empty.
C20_SharesSumToAmount ==
    Distributed =>
        IF Eligible(ev.nodes) # {}
        THEN SumOfShares(out.shares, DOMAIN out.shares) = ev.amount
        ELSE out.shares = EmptyMap

\* an amount that no bucket divides evenly was shared by nodes of two ages
C20_Witness ==
    /\ Distributed
    /\ Cardinality(DOMAIN out.shares) = 3
    /\ Cardinality({out.shares[n].age : n \in DOMAIN out.shares}) = 2
    /\ \E n \in DOMAIN out.shares, m \in DOMAIN out.shares :
          out.shares[n].age = out.shares[m].age /\ out.shares[n].share > out.shares[m].share
    /\ SumOfShares(out.shares, DOMAIN out.shares) = ev.amount

\* C21: the result of distribute_rewards has exactly the input nodes of age
\* >= 6 as its keys, each with its own input age and wallet key, for every
\* amount (0 and amounts below one round of weights included).
C21_ResultHasEveryEligibleNode ==
    Distributed =>
        /\ DOMAIN out.shares = Eligible(ev.nodes)
        /\ \A n \in DOMAIN out.shares :
              /\ out.shares[n].age = ev.nodes[n].age
              /\ out.shares[n].wallet = WalletOf(n)

\* the share a node received in the result, nothing when it is not in it
ShareIn(shares, n) == IF n \in DOMAIN shares THEN shares[n].share ELSE 0

\* C22: distribute weight. In one run, of two eligible nodes of ages a and
\* a + 1 the node of age a + 1 receives at least the share of the other.
C22_OlderNodeReceivesNoLess ==
    Distributed =>
        \A n \in Eligible(ev.nodes), m \in Eligible(ev.nodes) :
            ev.nodes[m].age = ev.nodes[n].age + 1
                => ShareIn(out.shares, m) >= ShareIn(out.shares, n)

\* C23: no unsigned operation of get_reward_and_mint_amount overflows or
\* underflows, whatever the payments, the managed amount and the maximum
\* supply are.
C23_MintArithmeticIsSafe ==
    ev.kind = "Mint" =>
        Panic \notin get_reward_and_mint_amount(ev.payments, ev.section_managed,
                                                ev.max_supply)

\* C24: no arithmetic of distribute_rewards overflows, underflows or divides
\* by zero, whatever the amount and the ages of the nodes are: a build that
\* checks its arithmetic never panics.
C24_DistributeArithmeticIsSafe ==
    ev.kind = "Distribute" => distribute_rewards(ev.amount, ev.nodes, TRUE) # Panic

\* the nodes of the result that are of one age, and what they were awarded
BucketOf(shares, age) == {n \in DOMAIN shares : shares[n].age = age}
BucketAward(shares, age) == SumOfShares(shares, BucketOf(shares, age))

\* C33: within one age bucket every node but the one of the lowest name
\* receives floor(award / size) and the node of the lowest name receives
\* that and the whole remainder award mod size; the shares are a function of
\* the amount and the nodes.
C33_BucketSharedEquallyRemainderToFirst ==
    Distributed =>
        /\ \A age \in {out.shares[n].age : n \in DOMAIN out.shares} :
              LET bucket == BucketOf(out.shares, age)
                  award == BucketAward(out.shares, age)
                  size == Cardinality(bucket)
              IN  /\ bucket = {n \in Eligible(ev.nodes) : ev.nodes[n].age = age}
                  /\ \A n \in bucket :
                        out.shares[n].share =
                            IF n = FirstName(bucket)
                            THEN (award \div size) + (award % size)
                            ELSE award \div size
                  /\ \A n \in bucket, m \in bucket :
                        out.shares[n].share - out.shares[m].share < size
        /\ \A overflow_checks \in BOOLEAN :
              LET again == distribute_rewards(ev.amount, ev.nodes, overflow_checks)
              IN  again.kind = "Shares" => again = out

\* three nodes of one age shared an award that leaves the largest remainder
C33_Witness ==
    /\ Distributed
    /\ \E age \in Ages :
          /\ BucketOf(out.shares, age) = RewardedNames
          /\ out.shares["n1"].share = out.shares["n2"].share + 2
          /\ out.shares["n3"].share = out.shares["n2"].share
          /\ out.shares["n2"].share > 0

\* C40: distribute_rewards terminates for every amount and every node map:
\* each step of the loop takes a positive quantity from the remaining amount,
\* which reaches zero after finitely many steps.
C40_DistributeTerminates ==
    ev.kind = "Distribute" => out # Diverges

(***************************************************************************)
(* Properties of the Node Event Loop.                                      *)
(***************************************************************************)
\* the duty enqueued last while the current event is handled
LastEnqueued(n) ==
    LET lists == n.next_ops \o n.pending_node_ops
    IN  lists[CHOOSE i \in 1..Len(lists) : lists[i].seq = n.enqueued].duty

\* duty is a ProcessingError sent back to the source of ctx that keeps the
\* id of the message of ctx
AnswersError(duty, ctx) ==
    /\ duty.kind = "SendError"
    /\ ctx.kind # "None" => duty.dst = get_dst_from_src(ctx.src)
    /\ ctx.kind = "Msg" => duty.msg.source_message.id = ctx.msg.id

\* the step handles a duty and the handling fails
HandlingFails ==
    /\ ev'.kind = "Handled"
    /\ node'.handled # node.handled
    /\ node'.handled[Len(node'.handled)].failed

\* C25: whenever handling a duty or mapping an event fails, the loop makes
\* of the error a ProcessingError duty addressed back to the source of the
\* triggering message that keeps the id of that message; no error becomes
\* NoOp.
C25_ErrorsBecomeProcessingErrors ==
    [][/\ HandlingFails => AnswersError(LastEnqueued(node'), node.ctx)
       /\ (ev'.kind = "MappingError" /\ node'.delivered # node.delivered)
             => AnswersError(node'.next_ops[1].duty, ev'.ctx)]_vars

\* C26: within one routing event duties are handled in the order they were
\* enqueued: a generation before its follow-ups, the follow-ups in the order
\* they were produced.
C26_DutiesHandledInFifoOrder ==
    \A i \in 1..Len(node.handled) : node.handled[i].seq = i

\* a duty, its sibling and then the follow-up of the first were handled
C26_Witness ==
    /\ Len(node.handled) = 4
    /\ node.handled[3].parent = 1
    /\ node.handled[4].parent = 2

\* C27, as stated: duties are handled depth-first, the follow-ups of a duty
\* before the next duty of the same list.
C27_DutiesHandledDepthFirst ==
    \A i \in 1..Len(node.handled), j \in 1..Len(node.handled), k \in 1..Len(node.handled) :
        (i < j /\ j < k /\ node.handled[j].parent = node.handled[i].parent)
            => node.handled[k].parent # node.handled[i].seq

\* C27, amended: duties are handled generation by generation, the follow-ups
\* of a duty only after every duty of its own list.
C27_DutiesHandledByGeneration ==
    \A i \in 1..Len(node.handled), j \in 1..Len(node.handled) :
        i < j => node.handled[i].gen <= node.handled[j].gen

\* two duties of one list were handled, then a follow-up of each
C27_Witness ==
    /\ Len(node.handled) >= 4
    /\ node.handled[2].gen = 1 /\ node.handled[3].gen = 1
    /\ node.handled[4].gen = 2 /\ node.handled[4].parent = 2
    /\ Idle

\* the seq numbers of the duties of a list
SeqsOf(list) == {list[i].seq : i \in 1..Len(list)}

\* every duty enqueued for the current event is in exactly one place: handled,
\* next to be handled, or pending
EachDutyOnce ==
    /\ Len(node.handled) + Len(node.next_ops) + Len(node.pending_node_ops) = node.enqueued
    /\ SeqsOf(node.handled) \cup SeqsOf(node.next_ops) \cup SeqsOf(node.pending_node_ops)
          = 1..node.enqueued

\* C28: every duty produced while an event is handled, those made of errors
\* included, is handled exactly once; the next event is taken from the stream
\* only when no duty is left, one event after the other.
C28_EveryDutyHandledOnceBeforeNextEvent ==
    /\ []EachDutyOnce
    /\ [][node'.delivered # node.delivered
            => /\ node'.delivered = node.delivered + 1
               /\ Len(node.handled) = node.enqueued
               /\ node.next_ops = <<>> /\ node.pending_node_ops = <<>>]_vars

\* the second event was handled to its end, a failed duty and the error made
\* of it included
C28_Witness ==
    /\ node.delivered = 2
    /\ Idle
    /\ Len(node.handled) = node.enqueued
    /\ \E i \in 1..Len(node.handled), j \in 1..Len(node.handled) :
          /\ node.handled[i].failed
          /\ node.handled[j].kind = "SendError" /\ node.handled[j].parent = i

(***************************************************************************)
(* Properties of replication.                                              *)
(***************************************************************************)
\* C29: the GetChunk query that ReplicateChunk(addr, current_holders, msg_id)
\* emits carries the holder set it was given, is sent to exactly those
\* holders, and names the requesting node as new_holder.
C29_GetChunkCarriesHolders ==
    [][ev'.kind = "ReplicateChunk"
          => \A current_holders \in SUBSET (ChunkNodes \ {Holder}), msg_id \in MsgIds :
                out' = replicate_chunk(Disk, Holder, ev'.node, current_holders, msg_id).duty
                    => /\ out'.kind = "SendToNodes"
                       /\ out'.msg.type = "GetChunk"
                       /\ out'.msg.current_holders = current_holders
                       /\ out'.targets = current_holders
                       /\ out'.msg.new_holder = Holder]_vars

\* C30: StoreForReplication is an idempotent put. A blob that is not held is
\* stored whoever owns it, unless the store fails; a blob that is held is
\* left alone, with the store and the used space as they were, and neither
\* a duty nor an error is returned.
C30_StoreForReplicationIsIdempotent ==
    [][ev'.kind = "StoreForReplication"
          => IF chunks_has(Disk, ev'.node)
             THEN Disk' = Disk /\ out' = NoOp
             ELSE \/ out' = NoOp /\ chunks_has(Disk', ev'.node)
                                /\ AddressOf(chunks_get(Disk', ev'.node).blob) = ev'.node
                  \/ out'.kind = "Err" /\ Disk' = Disk]_vars

\* a private blob that the storage held was sent for replication once more
C30_Witness ==
    /\ ev.kind = "StoreForReplication"
    /\ ev.held
    /\ out = NoOp
    /\ chunks_has(Disk, ev.node)
    /\ chunks_get(Disk, ev.node).blob.kind = "Private"

\* the blobs on the disk of the holder, by address
HeldBlobs == storage[Holder].chunks

\* C38: blobs are immutable and public blobs are permanent. Whatever request
\* the storage handles (Store, StoreForReplication, Get, Delete,
\* ReplicateChunk, GetForReplication, from any origin), a public blob that is
\* stored stays stored at its address, and the blob stored at an address, of
\* any kind, is the same blob after the request as long as the address is
\* present.
C38_PublicPermanentBlobsImmutable ==
    [][\A a \in DOMAIN HeldBlobs :
          /\ HeldBlobs[a].kind = "Public" => a \in DOMAIN HeldBlobs'
          /\ a \in DOMAIN HeldBlobs' => HeldBlobs'[a] = HeldBlobs[a]]_vars

\* a Delete of the address of a stored public blob was handled, and the blob
\* is still there next to another blob
C38_Witness ==
    /\ ev.kind = "Delete"
    /\ ev.held
    /\ ev.node.kind = "Public"
    /\ ev.node \in DOMAIN HeldBlobs
    /\ HeldBlobs[ev.node].kind = "Public"
    /\ Cardinality(DOMAIN HeldBlobs) > 1

\* section S2 has just processed AddRelocatedAccount(n1, n2): n2 awaits its
\* counter and the ClaimRewardCounter command for n1 is on the wire
RelocationStarted ==
    /\ ev.kind = "AddRelocatedAccount"
    /\ ev.section = "S2"
    /\ ev.node = "n2"
    /\ StageOf(rewards["S2"].node_accounts, "n2") = "AwaitingStart"
    /\ \E m \in network : /\ m.type = "ClaimRewardCounter"
                          /\ m.old_node_id = "n1"
                          /\ m.new_node_id = "n2"

\* section S1 has processed PrepareAccountMove(n1): the account of n1 awaits
\* the move
OldAccountLeft == StageOf(rewards["S1"].node_accounts, "n1") = "AwaitingMove"

\* the relocation of n1 to n2 is complete
RelocationCompleted ==
    /\ StageOf(rewards["S2"].node_accounts, "n2") = "Active"
    /\ "n1" \notin DOMAIN rewards["S1"].node_accounts

\* C36: relocation completes. Once section S2 has processed
\* AddRelocatedAccount(n1, n2), and section S1 processes
\* PrepareAccountMove(n1) at some point, before or after the
\* ClaimRewardCounter command arrives, then under fair delivery of every
\* message the entry of n2 becomes Active and the entry of n1 is removed in
\* the end.
C36_RelocationCompletes ==
    [](RelocationStarted => ([]~OldAccountLeft \/ <>RelocationCompleted))

(***************************************************************************)
(* Properties of the replication of chunks between two nodes.              *)
(***************************************************************************)
\* node n stores a blob at address a
Holds(n, a) == a \in DOMAIN storage[n].chunks

\* ReplicateChunk(a, holders) has just run at the requester, which lacks the
\* blob, and a node among the holders stores it
ReplicationStarted(a) ==
    /\ ev.section = Requester
    /\ ev.kind = "ReplicateChunk"
    /\ ev.node = a
    /\ ~Holds(Requester, a)
    /\ out.kind = "SendToNodes"
    /\ \E t \in out.targets : Holds(t, a)

\* the requester has just refused the replicated blob of address a
ReplicaRefused(a) ==
    /\ ev.section = Requester
    /\ ev.kind = "StoreForReplication"
    /\ ev.node = a
    /\ out.kind = "Err"

\* C39, as claimed: replication completes. When ReplicateChunk(addr, holders)
\* runs at a node that lacks the blob and a node in holders stores it, then
\* under fair delivery of the query and of its response the requesting node
\* stores a blob at addr in the end (as long as the holder keeps its blob).
C39_ReplicationCompletes ==
    \A a \in SourceAddresses :
        [](ReplicationStarted(a) => <>(Holds(Requester, a) \/ ~Holds(Source, a)))

\* C39, as the code has it: replication completes or reports, and copies
\* faithfully. After ReplicateChunk(addr, holders) at a node that lacks the
\* blob, with a holder that stores it, under fair delivery the requesting
\* node stores a blob at addr in the end, unless its store refuses the blob
\* (no room, or the write fails), which it returns as an error, or the holder
\* has lost the blob meanwhile. A node that handles the query leaves its own
\* store unchanged, answers the new holder with the very blob it holds, and
\* sends no response at all when it lacks the blob; a new holder that accepts
\* a response it had no blob for stores the blob of the response.
C39_ReplicationCompletesOrReports ==
    /\ \A a \in SourceAddresses :
          [](ReplicationStarted(a)
               => <>(Holds(Requester, a) \/ ReplicaRefused(a) \/ ~Holds(Source, a)))
    /\ [][/\ ev'.kind = "GetForReplication"
             => /\ storage' = storage
                /\ IF ev'.held
                   THEN /\ out'.kind = "Send"
                        /\ out'.msg.blob = storage[ev'.section].chunks[ev'.node]
                        /\ out'.dst.node = Requester
                        /\ \E m \in network' : /\ m.type = "GetChunkResponse"
                                                /\ m.to = Requester
                                                /\ m.blob = out'.msg.blob
                   ELSE /\ out' = NoOp
                        /\ {m \in network' : m.type = "GetChunkResponse"} \subseteq network
          /\ (ev'.kind = "StoreForReplication" /\ ~ev'.held /\ out' = NoOp)
             => /\ ev'.node \in DOMAIN storage'[ev'.section].chunks
                /\ \E m \in network \ network' :
                      storage'[ev'.section].chunks[ev'.node] = m.blob]_vars

\* the requester has stored the replica of a blob it lacked, and it is the
\* blob the source still holds
C39_Witness ==
    /\ ev.section = Requester
    /\ ev.kind = "StoreForReplication"
    /\ ~ev.held
    /\ out = NoOp
    /\ Holds(Requester, ev.node)
    /\ Holds(Source, ev.node)
    /\ storage[Requester].chunks[ev.node] = storage[Source].chunks[ev.node]

====
